---- MODULE Spec2Model ----
(***************************************************************************)
(* Model of the G3ICAP Python client, examples/clients/python/icap_client.py *)
(*                                                                         *)
(* Text is a sequence of one-character strings.  The response parser       *)
(* (_parse_icap_response) is a set of operators over such sequences; the   *)
(* retry loop (_make_request) is a state machine with one step per run of  *)
(* code between two awaits.                                                *)
(***************************************************************************)
EXTENDS Integers, Sequences, FiniteSets, TLC

(***************************************************************************)
(* Bounds of the model                                                     *)
(***************************************************************************)
MaxCalls == 2          \* _make_request calls made on the client, one after another
MaxRetries == 2        \* config.retries ranges over 0..MaxRetries
MaxBackoffRetries == 3 \* config.retries ranges over 0..MaxBackoffRetries in SpecBackoff
MaxRetryDelay == 2     \* config.retry_delay ranges over 1..MaxRetryDelay
MaxMaxRetryDelay == 3  \* config.max_retry_delay ranges over 1..MaxMaxRetryDelay
MaxLineLen == 4        \* length of the status lines enumerated for the parser
MaxHeaders == 2        \* items in the headers of an HTTP payload
MaxBodyLen == 2        \* bytes in the body of an HTTP payload
NumTasks == 2          \* calls running concurrently on one client
MaxTaskRetries == 1    \* config.retries ranges over 0..MaxTaskRetries for them
MaxPoolSize == 1       \* config.connection_pool_size ranges over 0..MaxPoolSize
MaxCloses == 2         \* close() calls of the application over the life of a client

(***************************************************************************)
(* Characters and Python string helpers                                    *)
(***************************************************************************)
Digits == {"0", "1", "2", "3", "4", "5", "6", "7", "8", "9"}

\* str.isspace() on the ASCII range
PyWhitespace == {" ", "\t", "\n", "\r", "\f"}

DigitVal(c) ==
    CASE c = "0" -> 0 [] c = "1" -> 1 [] c = "2" -> 2 [] c = "3" -> 3
      [] c = "4" -> 4 [] c = "5" -> 5 [] c = "6" -> 6 [] c = "7" -> 7
      [] c = "8" -> 8 [] c = "9" -> 9

Min(a, b) == IF a <= b THEN a ELSE b

RECURSIVE Pow(_, _)
Pow(b, e) == IF e = 0 THEN 1 ELSE b * Pow(b, e - 1)

\* s[from..], the Python slice s[from-1:]
Drop(s, n) == SubSeq(s, n + 1, Len(s))
Take(s, n) == SubSeq(s, 1, n)

\* s.startswith(sep) at position i (1-based)
MatchAt(s, sep, i) ==
    /\ i + Len(sep) - 1 <= Len(s)
    /\ SubSeq(s, i, i + Len(sep) - 1) = sep

\* least position >= i where sep occurs in s, 0 when there is none (str.find)
RECURSIVE Find(_, _, _)
Find(s, sep, i) ==
    IF i + Len(sep) - 1 > Len(s) THEN 0
    ELSE IF MatchAt(s, sep, i) THEN i
    ELSE Find(s, sep, i + 1)

\* s.split(sep, maxsplit); maxsplit = -1 splits everywhere.  Empty pieces are kept.
RECURSIVE PySplit(_, _, _)
PySplit(s, sep, maxsplit) ==
    LET p == Find(s, sep, 1) IN
    IF maxsplit = 0 \/ p = 0 THEN <<s>>
    ELSE <<Take(s, p - 1)>> \o
         PySplit(Drop(s, p + Len(sep) - 1), sep,
                 IF maxsplit < 0 THEN maxsplit ELSE maxsplit - 1)

\* sep.join(pieces)
RECURSIVE PyJoin(_, _)
PyJoin(pieces, sep) ==
    IF Len(pieces) = 0 THEN <<>>
    ELSE IF Len(pieces) = 1 THEN pieces[1]
    ELSE pieces[1] \o sep \o PyJoin(Tail(pieces), sep)

RECURSIVE LStrip(_)
LStrip(s) ==
    IF Len(s) > 0 /\ s[1] \in PyWhitespace THEN LStrip(Tail(s)) ELSE s

RECURSIVE RStrip(_)
RStrip(s) ==
    IF Len(s) > 0 /\ s[Len(s)] \in PyWhitespace THEN RStrip(Take(s, Len(s) - 1)) ELSE s

\* str.strip()
PyStrip(s) == RStrip(LStrip(s))

\* the digits of s after an optional sign, as int() reads them
IntBody(s) ==
    LET t == PyStrip(s) IN
    IF Len(t) > 0 /\ t[1] \in {"+", "-"} THEN Tail(t) ELSE t

\* int(s) does not raise ValueError: optional surrounding whitespace, an optional
\* sign, then digits, single underscores allowed between digits
IsPyInt(s) ==
    LET b == IntBody(s) IN
    /\ Len(b) > 0
    /\ \A i \in 1..Len(b) : b[i] \in Digits \cup {"_"}
    /\ b[1] \in Digits
    /\ b[Len(b)] \in Digits
    /\ \A i \in 1..(Len(b) - 1) : ~(b[i] = "_" /\ b[i + 1] = "_")

RECURSIVE DigitsValue(_)
DigitsValue(b) ==
    IF Len(b) = 0 THEN 0
    ELSE IF b[Len(b)] = "_" THEN DigitsValue(Take(b, Len(b) - 1))
    ELSE 10 * DigitsValue(Take(b, Len(b) - 1)) + DigitVal(b[Len(b)])

\* int(s) for a string int() accepts
PyInt(s) ==
    LET t == PyStrip(s)
        v == DigitsValue(IntBody(s))
    IN IF Len(t) > 0 /\ t[1] = "-" THEN 0 - v ELSE v

(***************************************************************************)
(* _parse_icap_response                                                    *)
(***************************************************************************)
CRLF == <<"\r", "\n">>

\* Optional[...] values: None, or one value
None == <<>>
Some(x) == <<x>>

\* headers[name] = value on a dict kept as a sequence of <<name, value>> pairs in
\* insertion order: an existing key keeps its place and takes the new value
DictSet(d, name, value) ==
    IF \E i \in 1..Len(d) : d[i][1] = name
    THEN [i \in 1..Len(d) |-> IF d[i][1] = name THEN <<name, value>> ELSE d[i]]
    ELSE Append(d, <<name, value>>)

\* index (1-based) of the first empty line among lines[k..], 0 when there is none
RECURSIVE FirstBlank(_, _)
FirstBlank(lines, k) ==
    IF k > Len(lines) THEN 0
    ELSE IF lines[k] = <<>> THEN k
    ELSE FirstBlank(lines, k + 1)

\* the line split at every colon
HeaderPair_every_colon(line) == PySplit(line, <<":">>, -1)

\* name, value = line.split(':', 1)
HeaderPair(line) == PySplit(line, <<":">>, 1)

\* the header loop over lines[k..last]: a line with a colon is split on its first
\* colon and both parts are stripped, a line without one is skipped
RECURSIVE HeaderLoop(_, _, _, _)
HeaderLoop(lines, k, last, headers) ==
    IF k > last THEN headers
    ELSE LET line == lines[k]
             nv == HeaderPair(line)
         IN HeaderLoop(lines, k + 1, last,
                IF Find(line, <<":">>, 1) # 0
                THEN DictSet(headers, PyStrip(nv[1]), PyStrip(nv[2]))
                ELSE headers)

\* the status line split at every space
StatusParts_unbounded(status_line) == PySplit(status_line, <<" ">>, -1)

\* parts = status_line.split(' ', 2)
StatusParts(status_line) == PySplit(status_line, <<" ">>, 2)

\* the exception the status-line statements raise, "" when they raise none:
\* parts[1] raises IndexError, int(parts[1]) raises ValueError
StatusLineError(status_line) ==
    LET parts == StatusParts(status_line) IN
    IF Len(parts) < 2 THEN "IndexError"
    ELSE IF ~IsPyInt(parts[2]) THEN "ValueError"
    ELSE ""

\* body_start, as an index into the Python list `lines` (0-based): one past the
\* first empty line after the status line, and 0 when the loop never breaks
BodyStart(lines) == FirstBlank(lines, 2)

ParseBody(lines) ==
    LET body_start == BodyStart(lines) IN
    IF body_start < Len(lines)
    THEN LET body_text == PyJoin(Drop(lines, body_start), CRLF) IN
         IF Len(PyStrip(body_text)) > 0 THEN Some(body_text) ELSE None
    ELSE None

_parse_icap_response(response_text) ==
    LET lines == PySplit(response_text, CRLF, -1)
        status_line == lines[1]
        parts == StatusParts(status_line)
        err == StatusLineError(status_line)
        blank == FirstBlank(lines, 2)
        lastHeader == IF blank = 0 THEN Len(lines) ELSE blank - 1
    IN IF err # ""
       THEN [ok |-> FALSE, error |-> err]
       ELSE [ok |-> TRUE,
             version |-> parts[1],
             status_code |-> PyInt(parts[2]),
             reason |-> IF Len(parts) > 2 THEN parts[3] ELSE <<>>,
             headers |-> HeaderLoop(lines, 2, lastHeader, <<>>),
             body |-> ParseBody(lines)]

(***************************************************************************)
(* Inputs of the retry loop                                                *)
(***************************************************************************)
ICAP10 == <<"I", "C", "A", "P", "/", "1", ".", "0">>

\* "ICAP/1.0 204 No Content\r\n\r\n"
Text204 ==
    ICAP10 \o <<" ", "2", "0", "4", " ", "N", "o", " ", "C", "o", "n", "t", "e", "n", "t">>
           \o CRLF \o CRLF

\* "ICAP/1.0 500 Internal Server Error\r\n\r\n"
Text500 ==
    ICAP10 \o <<" ", "5", "0", "0", " ", "I", "n", "t", "e", "r", "n", "a", "l", " ",
                "S", "e", "r", "v", "e", "r", " ", "E", "r", "r", "o", "r">>
           \o CRLF \o CRLF

\* "ICAP/1.0\r\n\r\n": a status line of one token
TextNoCode == ICAP10 \o CRLF \o CRLF

\* "ICAP/1.0 OK\r\n\r\n": the second token is no integer
TextBadCode == ICAP10 \o <<" ", "O", "K">> \o CRLF \o CRLF

\* what response.text() may deliver
ResponseTexts == {Text204, Text500, TextNoCode, TextBadCode}

\* "ICAP/1.0 400 Bad Request\r\n\r\n"
Text400 ==
    <<"I", "C", "A", "P", "/", "1", ".", "0", " ", "4", "0", "0", " ", "B", "a", "d",
      " ", "R", "e", "q", "u", "e", "s", "t", "\r", "\n", "\r", "\n">>

\* an OPTIONS response naming the methods of the service:
\* "ICAP/1.0 200 OK\r\nISTag: X\r\nService: S\r\nMethods: REQMOD,RESPMOD\r\n\r\n"
TextOptions ==
    <<"I", "C", "A", "P", "/", "1", ".", "0", " ", "2", "0", "0", " ", "O", "K", "\r",
      "\n", "I", "S", "T", "a", "g", ":", " ", "X", "\r", "\n", "S", "e", "r", "v",
      "i", "c", "e", ":", " ", "S", "\r", "\n", "M", "e", "t", "h", "o", "d", "s", ":",
      " ", "R", "E", "Q", "M", "O", "D", ",", "R", "E", "S", "P", "M", "O", "D", "\r",
      "\n", "\r", "\n">>

\* a 204 response with headers:
\* "ICAP/1.0 204 No Content\r\nISTag: X\r\nService: S\r\n
\*  Methods: REQMOD, RESPMOD, OPTIONS\r\n\r\n"
TextHeaders204 ==
    <<"I", "C", "A", "P", "/", "1", ".", "0", " ", "2", "0", "4", " ", "N", "o", " ",
      "C", "o", "n", "t", "e", "n", "t", "\r", "\n", "I", "S", "T", "a", "g", ":", " ",
      "X", "\r", "\n", "S", "e", "r", "v", "i", "c", "e", ":", " ", "S", "\r", "\n",
      "M", "e", "t", "h", "o", "d", "s", ":", " ", "R", "E", "Q", "M", "O", "D", ",",
      " ", "R", "E", "S", "P", "M", "O", "D", ",", " ", "O", "P", "T", "I", "O", "N",
      "S", "\r", "\n", "\r", "\n">>

\* the text of the repository's parser test, its lines ending with a bare LF:
\* "ICAP/1.0 204 No Content\nISTag: W3E4R7U9\nService: G3ICAP\n
\*  Methods: REQMOD, RESPMOD, OPTIONS\n\n"
TextBareLF ==
    <<"I", "C", "A", "P", "/", "1", ".", "0", " ", "2", "0", "4", " ", "N", "o", " ",
      "C", "o", "n", "t", "e", "n", "t", "\n", "I", "S", "T", "a", "g", ":", " ", "W",
      "3", "E", "4", "R", "7", "U", "9", "\n", "S", "e", "r", "v", "i", "c", "e", ":",
      " ", "G", "3", "I", "C", "A", "P", "\n", "M", "e", "t", "h", "o", "d", "s", ":",
      " ", "R", "E", "Q", "M", "O", "D", ",", " ", "R", "E", "S", "P", "M", "O", "D",
      ",", " ", "O", "P", "T", "I", "O", "N", "S", "\n", "\n">>

\* a status line and a header with no blank line after them:
\* "ICAP/1.0 200 OK\r\nISTag: X"
TextUnterminated ==
    <<"I", "C", "A", "P", "/", "1", ".", "0", " ", "2", "0", "0", " ", "O", "K", "\r",
      "\n", "I", "S", "T", "a", "g", ":", " ", "X">>

\* a header with a colon in its value, a line without a colon, and a body that looks
\* like a header: "ICAP/1.0 200 OK\r\nName:  a:b \r\nnocolon\r\n\r\nX: y"
TextColons ==
    <<"I", "C", "A", "P", "/", "1", ".", "0", " ", "2", "0", "0", " ", "O", "K", "\r",
      "\n", "N", "a", "m", "e", ":", " ", " ", "a", ":", "b", " ", "\r", "\n", "n",
      "o", "c", "o", "l", "o", "n", "\r", "\n", "\r", "\n", "X", ":", " ", "y">>

\* responses that exercise the header loop and the search for the body
HeaderTexts == {TextUnterminated, TextColons}

\* whole responses given to the parser
SampleTexts == {TextHeaders204, TextBareLF, TextOptions}

\* what response.text() may deliver to the call health_check makes
HealthTexts == {TextOptions, TextHeaders204, Text204, Text400, Text500, TextBadCode}

\* the parser's outcome on each of these texts, computed once
ParsedText == [text \in ResponseTexts \cup HealthTexts |-> _parse_icap_response(text)]

\* what response.status may be
ResponseStatuses == {204, 400, 500}

\* response_time of an attempt, in clock ticks
ResponseTimes == {1}

\* backoff_factor values, as fractions <<numerator, denominator>>
BackoffFactors == {<<1, 2>>, <<1, 1>>, <<3, 2>>, <<2, 1>>}

\* the ways an attempt ends without a return
TransportFailures == {"timeout", "connection", "fault"}

(***************************************************************************)
(* State                                                                   *)
(***************************************************************************)
VARIABLES
    config,          \* IcapConfig: retries, retry_delay, max_retry_delay, backoff_factor
    call_limit,      \* how many _make_request calls the application makes
    calls_made,      \* how many it has made
    metrics,         \* IcapClient.metrics
    metrics_at_call, \* the metrics when the current call was made
    pc,              \* the current call: idle (none made yet), attempting (awaiting
                     \* the session request), sleeping (awaiting asyncio.sleep),
                     \* returned, raised
    attempt,         \* the loop variable `attempt`
    last_exception,  \* the local last_exception
    result,          \* the returned IcapResponse, None before the return
    error,           \* the class of the raised exception, "" before the raise
    kinds,           \* the ways the ended attempts of the current call have ended
    last_kind,       \* the way its latest ended attempt ended, "" before
    returned_status, \* response.status of the attempt that returned, 0 before
    returned_text,   \* the text that attempt read, empty before
    slept,           \* the delays given to asyncio.sleep in the current call
    started,         \* session requests issued in the current call
    sent,            \* the arguments each of them was issued with
    ended,           \* session requests of the current call that have ended
    response_text,   \* the text given to _parse_icap_response when called directly
    parsed,          \* its outcome, None before the call
    health,          \* the outcome of health_check for the current call, None before
    http_data,       \* the HTTP payload given to the encapsulation functions
    encapsulated,    \* what _build_encapsulated_header returned for it, None before
    serialized,      \* the outcome of _serialize_http_data on it, None before
    reparsed,        \* the parser's outcome on the serialized payload, None before
    url,             \* what _build_icap_url returned when called directly, None before
    task,            \* the calls running concurrently: for each its position (idle,
                     \* waiting for a connection, attempting, sleeping, returned,
                     \* raised), its loop variable, `conn`, whether it holds a
                     \* connection of the pool, `alone`, the metrics of a fresh
                     \* client on which only this call ran, `during_sleep`,
                     \* whether it was made while another call was sleeping and
                     \* no sleep has ended since, `waited`, whether it has
                     \* waited for a connection, its local last_exception and
                     \* the text of the response it returned
    overlap,         \* whether a call has updated the metrics while another was
                     \* suspended in the middle of its attempts
    auth_headers,    \* what AuthenticationHandler.get_headers returned, None before
    request,         \* the arguments of the session request built by the current
                     \* call of reqmod, respmod or options, None before
    facade,          \* how that call of reqmod, respmod or options ended, None before
    snapshot,        \* the dict the latest get_metrics returned, None before
    session,         \* self.session: "None", or the ClientSession, open or closed
    scope,           \* the `async with` block on the client: "out" before it,
                     \* "body" inside it, then "left" (the body finished),
                     \* "raised" (the body raised) or "failed" (__aenter__ raised)
    closes,          \* how many times close() of a ClientSession has been awaited
    leaked           \* whether a ClientSession that connect() created has been
                     \* dropped from self.session while open

callVars == <<pc, attempt, last_exception, result, error, kinds, last_kind,
              returned_status, returned_text, slept, started, sent, ended>>

\* the state outside _make_request and the parser
codecVars == <<http_data, encapsulated, serialized, reparsed, url>>

taskVars == <<task, overlap>>

lifeVars == <<session, scope, closes, leaked>>

\* the state of the authentication handler, of reqmod, respmod and options, of
\* get_metrics and of connect and close
clientVars == <<auth_headers, request, facade, snapshot, session, scope, closes,
               leaked>>

extVars == <<health, codecVars, taskVars, clientVars>>

vars == <<config, call_limit, calls_made, metrics, metrics_at_call, callVars,
          response_text, parsed, extVars>>

(***************************************************************************)
(* _make_request: the pieces of the retry loop                             *)
(***************************************************************************)
\* the except clauses: the exception class stored in last_exception for an attempt
\* that ended by asyncio.TimeoutError, aiohttp.ClientError or any other Exception
\* (a fault of the transport, or an exception of _parse_icap_response)
ExceptionFor(kind) ==
    CASE kind = "timeout" -> "IcapTimeoutError"
      [] kind = "connection" -> "IcapConnectionError"
      [] OTHER -> "IcapError"

\* the first exception of the call is kept instead of the latest
NextLastException_first(old, kind) == IF old = "None" THEN ExceptionFor(kind) ELSE old

\* last_exception after an attempt that ended by `kind`
NextLastException(old, kind) == ExceptionFor(kind)

\* range(self.config.retries): one iteration short
LoopCount_short == config.retries

\* range(self.config.retries + 1): the number of loop iterations
LoopCount == config.retries + 1

\* the call sleeps after every failed attempt, the last one included
RetriesLeft_always(a) == TRUE

\* if attempt < self.config.retries
RetriesLeft(a) == a < config.retries

\* if response.status <= 400
IsSuccessStatus_inclusive(status) == status <= 400

\* if response.status < 400
IsSuccessStatus(status) == status < 400

\* a fraction <<n, d>> with d > 0 is at most / equal to another
FracLeq(x, y) == x[1] * y[2] <= y[1] * x[2]
FracEq(x, y) == x[1] * y[2] = y[1] * x[2]

\* retry_delay * (backoff_factor ** attempt), as a fraction (the factors of
\* BackoffFactors are dyadic, so the float arithmetic of the code is exact on them)
RawDelay(a) ==
    <<config.retry_delay * Pow(config.backoff_factor[1], a),
      Pow(config.backoff_factor[2], a)>>

\* the delay without the cap of max_retry_delay
BackoffDelay_uncapped(a) == RawDelay(a)

\* delay = min(retry_delay * (backoff_factor ** attempt), max_retry_delay)
BackoffDelay(a) ==
    IF FracLeq(RawDelay(a), <<config.max_retry_delay, 1>>)
    THEN RawDelay(a)
    ELSE <<config.max_retry_delay, 1>>

\* requests_success counts the successes since the latest failure
UpdateMetrics_streak(m, status, response_time) ==
    LET total == m.requests_total + 1
        time_total == m.response_time_total + response_time
    IN [m EXCEPT !.requests_total = total,
                 !.response_time_total = time_total,
                 !.response_time_avg = <<time_total, total>>,
                 !.requests_success = IF IsSuccessStatus(status) THEN @ + 1 ELSE 0,
                 !.requests_failed = IF IsSuccessStatus(status) THEN @ ELSE @ + 1]

\* the metrics update made when a response text has been read
UpdateMetrics(m, status, response_time) ==
    LET total == m.requests_total + 1
        time_total == m.response_time_total + response_time
    IN [m EXCEPT !.requests_total = total,
                 !.response_time_total = time_total,
                 !.response_time_avg = <<time_total, total>>,
                 !.requests_success = IF IsSuccessStatus(status) THEN @ + 1 ELSE @,
                 !.requests_failed = IF IsSuccessStatus(status) THEN @ ELSE @ + 1]

\* the loop is left without a return: requests_failed += 1; raise last_exception
\* (raising None is a TypeError)
Exhausted(n, m, exc) ==
    /\ metrics' = [m EXCEPT !.requests_failed = @ + 1]
    /\ pc' = "raised"
    /\ error' = IF exc = "None" THEN "TypeError" ELSE exc
    /\ started' = n
    /\ UNCHANGED attempt

\* the for statement reaches iteration a, n requests having been issued in this call
\* and the metrics being m: if the range holds a, the session request is issued and
\* awaited, otherwise the loop is left
Iterate(a, n, m, exc) ==
    IF a < LoopCount
    THEN /\ pc' = "attempting"
         /\ attempt' = a
         /\ started' = n + 1
         /\ metrics' = m
         /\ error' = ""
    ELSE Exhausted(n, m, exc)

\* the payload is sent by the first attempt only
SentRequest_body_once(req, a) ==
    IF a > 0 /\ req # None THEN Some([req[1] EXCEPT !.data = None]) ELSE req

\* the arguments of self.session.request in iteration a, req being what was built
\* before the loop: method.value, url, headers and body are read as they are
SentRequest(req, a) == req

\* iteration a is reached, n requests having been issued in this call: when the
\* range holds a, the request of this iteration is issued
Send(a, n, req) ==
    LET before == IF n = 0 THEN <<>> ELSE sent IN
    sent' = IF a < LoopCount THEN Append(before, SentRequest(req, a)) ELSE before

\* an attempt ended by an exception of kind `kind`, the metrics being m: the except
\* clause, then the wait before the retry, or the next turn of the for statement
AttemptFailed(kind, m) ==
    LET exc == NextLastException(last_exception, kind) IN
    /\ last_exception' = exc
    /\ kinds' = kinds \cup {kind}
    /\ last_kind' = kind
    /\ ended' = ended + 1
    /\ UNCHANGED <<result, returned_status, returned_text>>
    /\ IF RetriesLeft(attempt)
       THEN /\ pc' = "sleeping"
            /\ slept' = Append(slept, BackoffDelay(attempt))
            /\ metrics' = m
            /\ UNCHANGED <<attempt, error, started, sent>>
       ELSE /\ Iterate(attempt + 1, started, m, exc)
            /\ Send(attempt + 1, started, request)
            /\ slept' = slept

(***************************************************************************)
(* _make_request: the steps, one per run of code between two awaits        *)
(***************************************************************************)
\* a call is made, the one before it being over: the request is built,
\* last_exception = None, and the loop starts with attempt 0
MakeRequest ==
    /\ pc \in {"idle", "returned", "raised"}
    /\ calls_made < call_limit
    /\ calls_made' = calls_made + 1
    /\ metrics_at_call' = metrics
    /\ last_exception' = "None"
    /\ result' = None
    /\ kinds' = {}
    /\ last_kind' = ""
    /\ returned_status' = 0
    /\ returned_text' = <<>>
    /\ slept' = <<>>
    /\ ended' = 0
    /\ Iterate(0, 0, metrics, "None")
    /\ UNCHANGED <<config, call_limit, response_text, parsed>>

\* the application calls reqmod, respmod or options
Call ==
    /\ MakeRequest
    /\ Send(0, 0, request)
    /\ UNCHANGED extVars

\* the awaited request ends by asyncio.TimeoutError, by aiohttp.ClientError or by
\* any other Exception
TransportFailure(kind) ==
    /\ pc = "attempting"
    /\ AttemptFailed(kind, metrics)
    /\ UNCHANGED <<config, call_limit, calls_made, metrics_at_call, response_text,
                   parsed, extVars>>

Timeout == TransportFailure("timeout")

ConnectionFailure == TransportFailure("connection")

Fault == TransportFailure("fault")

\* the response text has been read: the metrics are updated, then the text is
\* parsed; the parsed response is returned, and an exception of the parser is
\* caught by `except Exception`
Response(status, text, response_time) ==
    LET m == UpdateMetrics(metrics, status, response_time)
        r == ParsedText[text]
    IN /\ pc = "attempting"
       /\ IF r.ok
          THEN /\ metrics' = m
               /\ pc' = "returned"
               /\ result' = Some(r)
               /\ returned_status' = status
               /\ returned_text' = text
               /\ kinds' = kinds \cup {"response"}
               /\ last_kind' = "response"
               /\ ended' = ended + 1
               /\ UNCHANGED <<attempt, last_exception, error, slept, started, sent>>
          ELSE AttemptFailed("unparseable", m)
       /\ UNCHANGED <<config, call_limit, calls_made, metrics_at_call, response_text,
                      parsed, extVars>>

\* after the sleep the same iteration is run again
Wake_same_attempt ==
    /\ pc = "sleeping"
    /\ Iterate(attempt, started, metrics, last_exception)
    /\ Send(attempt, started, request)
    /\ UNCHANGED <<config, call_limit, calls_made, metrics_at_call, last_exception,
                   result, kinds, last_kind, returned_status, returned_text, slept,
                   ended, response_text, parsed, extVars>>

\* asyncio.sleep(delay) is over: the next iteration of the loop
Wake ==
    /\ pc = "sleeping"
    /\ Iterate(attempt + 1, started, metrics, last_exception)
    /\ Send(attempt + 1, started, request)
    /\ UNCHANGED <<config, call_limit, calls_made, metrics_at_call, last_exception,
                   result, kinds, last_kind, returned_status, returned_text, slept,
                   ended, response_text, parsed, extVars>>

(***************************************************************************)
(* _parse_icap_response called directly                                    *)
(***************************************************************************)
Parse ==
    /\ parsed = None
    /\ parsed' = Some(_parse_icap_response(response_text))
    /\ UNCHANGED <<config, call_limit, calls_made, metrics, metrics_at_call, callVars,
                   response_text, extVars>>

(***************************************************************************)
(* health_check                                                            *)
(***************************************************************************)
\* d.get(key, default) on a dict kept as a sequence of pairs
DictGet(d, key, default) ==
    IF \E i \in 1..Len(d) : d[i][1] = key
    THEN d[CHOOSE i \in 1..Len(d) : d[i][1] = key][2]
    ELSE default

\* str(e) of the exception _make_request raises, {e} standing for the text of the
\* exception the attempt ended with
ErrorMessage(exc) ==
    CASE exc = "IcapTimeoutError" -> "Request timeout: {e}"
      [] exc = "IcapConnectionError" -> "Connection error: {e}"
      [] exc = "IcapError" -> "Unexpected error: {e}"
      [] OTHER -> "exceptions must derive from BaseException"

\* a status of 400 counted as healthy
HealthStatus_inclusive(status_code) == IF status_code <= 400 THEN "healthy" ELSE "unhealthy"

\* "healthy" if response.status_code < 400 else "unhealthy"
HealthStatus(status_code) == IF status_code < 400 THEN "healthy" ELSE "unhealthy"

HeaderService == <<"S", "e", "r", "v", "i", "c", "e">>
HeaderMethods == <<"M", "e", "t", "h", "o", "d", "s">>
HeaderISTag == <<"I", "S", "T", "a", "g">>
Unknown == <<"u", "n", "k", "n", "o", "w", "n">>

\* headers.get("Methods", "").split(",") if headers.get("Methods") else []
HealthMethods(headers) ==
    IF DictGet(headers, HeaderMethods, None) # <<>>
    THEN PySplit(DictGet(headers, HeaderMethods, <<>>), <<",">>, -1)
    ELSE <<>>

\* the try block of health_check, options having returned `response`
HealthOnResponse(response) ==
    [raised |-> FALSE,
     value |-> [status |-> HealthStatus(response.status_code),
                status_code |-> response.status_code,
                version |-> DictGet(response.headers, HeaderService, Unknown),
                methods |-> HealthMethods(response.headers),
                istag |-> DictGet(response.headers, HeaderISTag, <<>>)]]

\* the exception of options leaves health_check
HealthOnError_propagating(exc) == [raised |-> TRUE, error |-> exc]

\* the except clause of health_check, options having raised an exception of class exc
HealthOnError(exc) ==
    [raised |-> FALSE, value |-> [status |-> "unhealthy", error |-> ErrorMessage(exc)]]

(***************************************************************************)
(* HTTP payloads: _build_encapsulated_header and _serialize_http_data      *)
(***************************************************************************)
SP == <<" ">>
GET == <<"G", "E", "T">>
RootUri == <<"/">>
HTTP11 == <<"H", "T", "T", "P", "/", "1", ".", "1">>
OK == <<"O", "K">>
Host == <<"H", "o", "s", "t">>

\* a byte that is not valid UTF-8; every other byte of the model is an ASCII
\* character and is written as that character
InvalidByte == "0xFF"

\* bytes.decode('utf-8', errors='ignore')
Utf8DecodeIgnore(bytes) == SelectSeq(bytes, LAMBDA b : b # InvalidByte)

DigitChar(d) ==
    CASE d = 0 -> "0" [] d = 1 -> "1" [] d = 2 -> "2" [] d = 3 -> "3" [] d = 4 -> "4"
      [] d = 5 -> "5" [] d = 6 -> "6" [] d = 7 -> "7" [] d = 8 -> "8" [] d = 9 -> "9"

\* str(n) of a natural number, as an f-string formats it
RECURSIVE IntToStr(_)
IntToStr(n) ==
    IF n < 10 THEN <<DigitChar(n)>>
    ELSE Append(IntToStr(n \div 10), DigitChar(n % 10))

\* the defaults of IcapConfig.host and IcapConfig.port
DefaultHost == <<"1", "2", "7", ".", "0", ".", "0", ".", "1">>
DefaultPort == 1344

\* no payload (http_data = None)
NoPayload == [kind |-> "none"]

\* the first line: the request line or the status line
StartLine(data) ==
    IF data.kind = "request"
    THEN data.method \o SP \o data.uri \o SP \o data.version
    ELSE data.version \o SP \o IntToStr(data.status_code) \o SP \o data.reason

\* the length named in the header is measured on the first line of the payload
_build_encapsulated_header_measured(data) ==
    IF data.kind = "request"
    THEN <<"r", "e", "q", "-", "h", "d", "r", "=", "0", ",", " ",
           "n", "u", "l", "l", "-", "b", "o", "d", "y", "=">>
         \o IntToStr(Len(StartLine(data)) + 4)
    ELSE IF data.kind = "response"
    THEN <<"r", "e", "s", "-", "h", "d", "r", "=", "0", ",", " ",
           "n", "u", "l", "l", "-", "b", "o", "d", "y", "=">>
         \o IntToStr(Len(StartLine(data)) + 4)
    ELSE <<"n", "u", "l", "l", "-", "b", "o", "d", "y", "=", "0">>

_build_encapsulated_header(data) ==
    IF data.kind = "request"
    THEN <<"r", "e", "q", "-", "h", "d", "r", "=", "0", ",", " ",
           "n", "u", "l", "l", "-", "b", "o", "d", "y", "=", "7", "5">>
    ELSE IF data.kind = "response"
    THEN <<"r", "e", "s", "-", "h", "d", "r", "=", "0", ",", " ",
           "n", "u", "l", "l", "-", "b", "o", "d", "y", "=", "1", "2", "0">>
    ELSE <<"n", "u", "l", "l", "-", "b", "o", "d", "y", "=", "0">>

\* f"{name}: {value}" for every item of the headers, in insertion order
HeaderLines(headers) ==
    [i \in 1..Len(headers) |-> headers[i][1] \o <<":", " ">> \o headers[i][2]]

\* `if http_data.body:` holds for a body that is neither None nor empty
BodyPresent(data) == data.body # None /\ data.body[1] # <<>>

\* the list `lines`: the first line, the header lines, an empty line, and the
\* decoded body when there is one
SerializedLines(data) ==
    <<StartLine(data)>> \o HeaderLines(data.headers) \o << <<>> >>
        \o (IF BodyPresent(data) THEN <<Utf8DecodeIgnore(data.body[1])>> ELSE <<>>)

\* "\r\n".join(lines).encode('utf-8'); None has no headers (AttributeError)
_serialize_http_data(data) ==
    IF data.kind = "none"
    THEN [ok |-> FALSE, error |-> "AttributeError"]
    ELSE [ok |-> TRUE, bytes |-> PyJoin(SerializedLines(data), CRLF)]

\* the headers a payload may carry: dicts of at most MaxHeaders items
HeaderItems ==
    {<<Host, <<"a">> >>, <<Host, <<" ", "a">> >>, << <<"X">>, <<"b">> >>, << <<"X">>, <<>> >>}

RECURSIVE HeaderMaps(_)
HeaderMaps(n) ==
    IF n = 0 THEN {<<>>}
    ELSE HeaderMaps(n - 1) \cup
         UNION {{Append(d, h) : h \in {x \in HeaderItems :
                                           \A i \in 1..Len(d) : d[i][1] # x[1]}} :
                d \in HeaderMaps(n - 1)}

BodyBytes == {"h", " ", InvalidByte}

RECURSIVE ByteStrings(_)
ByteStrings(n) ==
    IF n = 0 THEN {<<>>}
    ELSE ByteStrings(n - 1) \cup {Append(b, c) : b \in ByteStrings(n - 1), c \in BodyBytes}

\* Optional[bytes]
Bodies == {None} \cup {Some(b) : b \in ByteStrings(MaxBodyLen)}

\* HttpRequest and HttpResponse objects
Requests ==
    [kind : {"request"}, method : {GET}, uri : {RootUri}, version : {HTTP11},
     headers : HeaderMaps(MaxHeaders), body : Bodies]

Responses ==
    [kind : {"response"}, version : {HTTP11}, status_code : {200, 404}, reason : {OK},
     headers : HeaderMaps(MaxHeaders), body : Bodies]

Payloads == Requests \cup Responses \cup {NoPayload}

\* _build_encapsulated_header(http_data) is called
BuildEncapsulated ==
    /\ encapsulated = None
    /\ encapsulated' = Some(_build_encapsulated_header(http_data))
    /\ UNCHANGED <<config, call_limit, calls_made, metrics, metrics_at_call, callVars,
                   response_text, parsed, health, taskVars, clientVars,
                   http_data, serialized, reparsed, url>>

\* _serialize_http_data(http_data) is called
Serialize ==
    /\ serialized = None
    /\ serialized' = Some(_serialize_http_data(http_data))
    /\ UNCHANGED <<config, call_limit, calls_made, metrics, metrics_at_call, callVars,
                   response_text, parsed, health, taskVars, clientVars,
                   http_data, encapsulated, reparsed, url>>

\* _parse_icap_response is called on the text of the serialized payload
ParseSerialized ==
    /\ serialized # None
    /\ serialized[1].ok
    /\ reparsed = None
    /\ reparsed' = Some(_parse_icap_response(serialized[1].bytes))
    /\ UNCHANGED <<config, call_limit, calls_made, metrics, metrics_at_call, callVars,
                   response_text, parsed, health, taskVars, clientVars,
                   http_data, encapsulated, serialized, url>>

(***************************************************************************)
(* AuthenticationHandler                                                   *)
(***************************************************************************)
\* the keys of the authentication dict
KeyMethod == <<"m", "e", "t", "h", "o", "d">>
KeyUsername == <<"u", "s", "e", "r", "n", "a", "m", "e">>
KeyPassword == <<"p", "a", "s", "s", "w", "o", "r", "d">>
KeyToken == <<"t", "o", "k", "e", "n">>

KeyJwtToken == <<"j", "w", "t", "_", "t", "o", "k", "e", "n">>
KeyApiKey == <<"a", "p", "i", "_", "k", "e", "y">>
KeyHeaderName == <<"h", "e", "a", "d", "e", "r", "_", "n", "a", "m", "e">>

\* the values of AuthenticationMethod
MethodNone == <<"n", "o", "n", "e">>
MethodBasic == <<"b", "a", "s", "i", "c">>
MethodBearer == <<"b", "e", "a", "r", "e", "r">>
MethodJwt == <<"j", "w", "t">>
MethodApiKey == <<"a", "p", "i", "_", "k", "e", "y">>

Authorization == <<"A", "u", "t", "h", "o", "r", "i", "z", "a", "t", "i", "o", "n">>
XAPIKey == <<"X", "-", "A", "P", "I", "-", "K", "e", "y">>
BasicPrefix == <<"B", "a", "s", "i", "c", " ">>
BearerPrefix == <<"B", "e", "a", "r", "e", "r", " ">>

\* ord(c) of the characters the credentials are made of
Ord(c) ==
    CASE c = ":" -> 58
      [] c = "a" -> 97
      [] c = "e" -> 101
      [] c = "p" -> 112
      [] c = "r" -> 114
      [] c = "s" -> 115
      [] c = "u" -> 117

\* str.encode(): the bytes of an ASCII string
Encode(s) == [i \in 1..Len(s) |-> Ord(s[i])]

\* the base64 alphabet
Base64Alphabet ==
    <<"A", "B", "C", "D", "E", "F", "G", "H", "I", "J", "K", "L", "M", "N", "O", "P",
      "Q", "R", "S", "T", "U", "V", "W", "X", "Y", "Z", "a", "b", "c", "d", "e", "f",
      "g", "h", "i", "j", "k", "l", "m", "n", "o", "p", "q", "r", "s", "t", "u", "v",
      "w", "x", "y", "z", "0", "1", "2", "3", "4", "5", "6", "7", "8", "9", "+", "/">>

Base64Char(n) == Base64Alphabet[n + 1]

\* base64.b64encode(b).decode(): every three bytes give four characters, and a
\* last group of one or two bytes is padded with "="
RECURSIVE b64encode(_)
b64encode(b) ==
    IF Len(b) = 0 THEN <<>>
    ELSE IF Len(b) = 1
    THEN <<Base64Char(b[1] \div 4), Base64Char((b[1] % 4) * 16), "=", "=">>
    ELSE IF Len(b) = 2
    THEN <<Base64Char(b[1] \div 4), Base64Char((b[1] % 4) * 16 + b[2] \div 16),
           Base64Char((b[2] % 16) * 4), "=">>
    ELSE <<Base64Char(b[1] \div 4), Base64Char((b[1] % 4) * 16 + b[2] \div 16),
           Base64Char((b[2] % 16) * 4 + b[3] \div 64), Base64Char(b[3] % 64)>>
         \o b64encode(SubSeq(b, 4, Len(b)))

\* the JWT method reads the field of the bearer method
JwtToken_of_bearer(cfg) == DictGet(cfg, KeyToken, <<>>)

\* self.config.get("jwt_token", "")
JwtToken(cfg) == DictGet(cfg, KeyJwtToken, <<>>)

\* AuthenticationHandler.get_headers for a handler built with `method` and the
\* dict `cfg`
get_headers(method, cfg) ==
    IF method = MethodNone THEN <<>>
    ELSE IF method = MethodBasic
    THEN LET username == DictGet(cfg, KeyUsername, <<>>)
             password == DictGet(cfg, KeyPassword, <<>>)
             credentials == b64encode(Encode(username \o <<":">> \o password))
         IN << <<Authorization, BasicPrefix \o credentials>> >>
    ELSE IF method = MethodBearer
    THEN << <<Authorization, BearerPrefix \o DictGet(cfg, KeyToken, <<>>)>> >>
    ELSE IF method = MethodJwt
    THEN << <<Authorization, BearerPrefix \o JwtToken(cfg)>> >>
    ELSE IF method = MethodApiKey
    THEN << <<DictGet(cfg, KeyHeaderName, XAPIKey), DictGet(cfg, KeyApiKey, <<>>)>> >>
    ELSE <<>>

\* the method IcapClient.__init__ builds the handler with
AuthMethod(cfg) == DictGet(cfg, KeyMethod, MethodNone)

\* the fields of an authentication dict in the order they are written, and for
\* each the values it takes in the model when it is present
AuthKeys == <<KeyMethod, KeyUsername, KeyPassword, KeyToken, KeyJwtToken, KeyApiKey,
              KeyHeaderName>>

AuthValues(key) ==
    IF key = KeyMethod THEN {MethodNone, MethodBasic, MethodBearer, MethodJwt, MethodApiKey}
    ELSE IF key = KeyUsername THEN {<<>>, <<"u", "s", "e", "r">>}
    ELSE IF key = KeyPassword THEN {<<>>, <<"p", "a", "s", "s">>}
    ELSE IF key = KeyToken THEN {<<"s", "e">>}
    ELSE IF key = KeyJwtToken THEN {<<"e", "r">>}
    ELSE IF key = KeyApiKey THEN {<<"a", "r">>}
    ELSE {<<"X", "-", "K", "e", "y">>}

\* the dicts that hold any of the fields from AuthKeys[i] on, in that order
RECURSIVE AuthDictsFrom(_)
AuthDictsFrom(i) ==
    IF i > Len(AuthKeys) THEN {<<>>}
    ELSE AuthDictsFrom(i + 1) \cup
         {<< <<AuthKeys[i], v>> >> \o d : v \in AuthValues(AuthKeys[i]),
                                         d \in AuthDictsFrom(i + 1)}

\* authentication dicts with any of the fields missing
AuthDicts == AuthDictsFrom(1)

\* get_headers is called on a handler built as __init__ builds it
GetHeaders ==
    /\ auth_headers = None
    /\ auth_headers' = Some(get_headers(AuthMethod(config.authentication),
                                        config.authentication))
    /\ UNCHANGED <<config, call_limit, calls_made, metrics, metrics_at_call, callVars,
                   response_text, parsed, health, codecVars, taskVars, request, facade,
                   snapshot, lifeVars>>

(***************************************************************************)
(* reqmod, respmod and options                                             *)
(***************************************************************************)
UserAgent == <<"U", "s", "e", "r", "-", "A", "g", "e", "n", "t">>
UserAgentValue ==
    <<"G", "3", "I", "C", "A", "P", "-", "P", "y", "t", "h", "o", "n", "-", "C", "l",
      "i", "e", "n", "t", "/", "1", ".", "0", ".", "0">>
\* f"{self.config.host}:{self.config.port}"
HostValue == config.host \o <<":">> \o IntToStr(config.port)
Allow == <<"A", "l", "l", "o", "w">>
Allow204 == <<"2", "0", "4">>
Encapsulated == <<"E", "n", "c", "a", "p", "s", "u", "l", "a", "t", "e", "d">>

\* d.update(e)
RECURSIVE DictUpdate(_, _)
DictUpdate(d, e) ==
    IF e = <<>> THEN d ELSE DictUpdate(DictSet(d, e[1][1], e[1][2]), Tail(e))

\* Host and User-Agent, and the headers of the authentication handler when
\* config.authentication is neither None nor empty
_get_default_headers ==
    LET headers == << <<Host, HostValue>>, <<UserAgent, UserAgentValue>> >>
    IN IF config.authentication # <<>>
       THEN DictUpdate(headers, get_headers(AuthMethod(config.authentication),
                                            config.authentication))
       ELSE headers

\* the Encapsulated header and the body are set whatever http_data is
HasPayload_always(data) == TRUE

\* `if http_data:` holds for an HttpRequest or HttpResponse object, not for None
HasPayload(data) == data # NoPayload

\* method_path[method]
MethodPath(method) ==
    CASE method = "REQMOD" -> <<"/", "r", "e", "q", "m", "o", "d">>
      [] method = "RESPMOD" -> <<"/", "r", "e", "s", "p", "m", "o", "d">>
      [] method = "OPTIONS" -> <<"/", "o", "p", "t", "i", "o", "n", "s">>

IcapScheme == <<"i", "c", "a", "p", ":", "/", "/">>

\* the URL names the port IcapConfig has by default
_build_icap_url_default_port(method) ==
    IcapScheme \o config.host \o <<":">> \o IntToStr(DefaultPort) \o MethodPath(method)

\* f"icap://{self.config.host}:{self.config.port}{method_path[method]}"
_build_icap_url(method) ==
    IcapScheme \o config.host \o <<":">> \o IntToStr(config.port) \o MethodPath(method)

\* _build_icap_url(method) is called
BuildUrl(method) ==
    /\ url' = Some([method |-> method, value |-> _build_icap_url(method)])
    /\ UNCHANGED <<config, call_limit, calls_made, metrics, metrics_at_call, callVars,
                   response_text, parsed, health, taskVars, clientVars,
                   http_data, encapsulated, serialized, reparsed>>

\* the arguments of self.session.request as _make_request builds them before the
\* loop, `caller` being the method of the client that was called
BuildRequest(caller, method, data) ==
    LET headers == DictSet(_get_default_headers, Allow, Allow204)
    IN [caller |-> caller,
        method |-> method,
        url |-> _build_icap_url(method),
        headers |-> IF HasPayload(data)
                    THEN DictSet(headers, Encapsulated, _build_encapsulated_header(data))
                    ELSE headers,
        data |-> IF HasPayload(data) THEN Some(_serialize_http_data(data)) ELSE None]

\* the exception leaves the method as an IcapError that wraps it
FacadeRaise_wrapped(exc) ==
    [raised |-> TRUE, error |-> "IcapError", message |-> ErrorMessage("IcapError")]

\* the except clause of reqmod, respmod and options logs the exception and
\* re-raises it with a bare `raise`
FacadeRaise(exc) == [raised |-> TRUE, error |-> exc, message |-> ErrorMessage(exc)]

\* the try block: the response of _make_request is returned; reqmod and respmod
\* look for "HTTP/" in its decoded body and do nothing with what they find
FacadeReturn(response) == [raised |-> FALSE, response |-> response]

\* no call of reqmod, respmod, options or health_check is under way
FacadeIdle == request = None \/ facade # None

\* reqmod, respmod or options is called with the payload `data` (None for options),
\* the call before it being over: it awaits _make_request
FacadeCall(caller, method, data) ==
    /\ FacadeIdle
    /\ MakeRequest
    /\ Send(0, 0, Some(BuildRequest(caller, method, data)))
    /\ request' = Some(BuildRequest(caller, method, data))
    /\ facade' = None

Reqmod(http_request) ==
    /\ FacadeCall("reqmod", "REQMOD", http_request)
    /\ UNCHANGED <<health, codecVars, taskVars, auth_headers, snapshot, lifeVars>>

Respmod(http_response) ==
    /\ FacadeCall("respmod", "RESPMOD", http_response)
    /\ UNCHANGED <<health, codecVars, taskVars, auth_headers, snapshot, lifeVars>>

Options ==
    /\ FacadeCall("options", "OPTIONS", NoPayload)
    /\ UNCHANGED <<health, codecVars, taskVars, auth_headers, snapshot, lifeVars>>

\* _make_request is over: reqmod, respmod or options returns or raises
FacadeDone ==
    /\ pc \in {"returned", "raised"}
    /\ request # None
    /\ request[1].caller # "health_check"
    /\ facade = None
    /\ facade' = Some(IF pc = "returned" THEN FacadeReturn(result[1])
                      ELSE FacadeRaise(error))
    /\ UNCHANGED <<config, call_limit, calls_made, metrics, metrics_at_call, callVars,
                   response_text, parsed, health, codecVars, taskVars, auth_headers,
                   request, snapshot, lifeVars>>

\* health_check is called, the call before it being over: it awaits options, which
\* awaits _make_request
HealthCheck ==
    /\ FacadeCall("health_check", "OPTIONS", NoPayload)
    /\ health' = None
    /\ UNCHANGED <<codecVars, taskVars, lifeVars, snapshot, auth_headers>>

\* options is over: health_check returns its summary
HealthCheckDone ==
    /\ pc \in {"returned", "raised"}
    /\ request # None
    /\ request[1].caller = "health_check"
    /\ health = None
    /\ facade' = Some(IF pc = "returned" THEN FacadeReturn(result[1])
                      ELSE FacadeRaise(error))
    /\ health' = Some(IF pc = "returned"
                      THEN HealthOnResponse(result[1])
                      ELSE HealthOnError(error))
    /\ UNCHANGED <<config, call_limit, calls_made, metrics, metrics_at_call, callVars,
                   response_text, parsed, codecVars, taskVars, auth_headers, request,
                   snapshot, lifeVars>>

\* the payloads given to reqmod and respmod
FacadeRequests ==
    {r \in Requests : Len(r.headers) <= 1 /\ r.body \in {None, Some(<<"h">>)}}

FacadeResponses ==
    {r \in Responses : Len(r.headers) <= 1 /\ r.body \in {None, Some(<<"h">>)}}

\* authentication dicts of the clients that make these calls: none, a bearer
\* token, and an API key under the default header name
FacadeAuths ==
    {<<>>,
     << <<KeyMethod, MethodBearer>>, <<KeyToken, <<"s", "e">>>> >>,
     << <<KeyMethod, MethodApiKey>>, <<KeyApiKey, <<"a", "r">>>> >>}

(***************************************************************************)
(* connect, close, the `async with` block, get_metrics                     *)
(***************************************************************************)
\* no call of the client is under way
ClientIdle == pc \in {"idle", "returned", "raised"} /\ FacadeIdle

\* whether the session that self.session held is left open when connect() assigns
\* a new one: the old session is dropped as it is, nothing closes it
Replaced(old) == old = "open"

\* connect(): a new ClientSession replaces self.session, or building it raises
\* and the exception becomes an IcapConnectionError, self.session being left as
\* it was
ConnectSession(ok) ==
    /\ session' = IF ok THEN "open" ELSE session
    /\ leaked' = (leaked \/ (ok /\ Replaced(session)))
    /\ UNCHANGED closes

\* close(): `if self.session:` awaits close() of the session, which stays in
\* self.session
CloseSession ==
    /\ session' = IF session # "None" THEN "closed" ELSE session
    /\ closes' = IF session # "None" THEN closes + 1 ELSE closes
    /\ UNCHANGED leaked

\* the application calls connect()
Connect(ok) ==
    /\ ClientIdle
    /\ scope # "body" \/ ok
    /\ ConnectSession(ok)
    /\ UNCHANGED <<config, call_limit, calls_made, metrics, metrics_at_call, callVars,
                   response_text, parsed, health, codecVars, taskVars, auth_headers,
                   request, facade, snapshot, scope>>

\* the application calls close()
Close ==
    /\ ClientIdle
    /\ closes < MaxCloses
    /\ CloseSession
    /\ UNCHANGED <<config, call_limit, calls_made, metrics, metrics_at_call, callVars,
                   response_text, parsed, health, codecVars, taskVars, auth_headers,
                   request, facade, snapshot, scope>>

\* `async with client:` is entered: __aenter__ awaits connect(); when connect()
\* raises the block is not run and __aexit__ is not called
__aenter__(ok) ==
    /\ ClientIdle
    /\ scope = "out"
    /\ ConnectSession(ok)
    /\ scope' = IF ok THEN "body" ELSE "failed"
    /\ UNCHANGED <<config, call_limit, calls_made, metrics, metrics_at_call, callVars,
                   response_text, parsed, health, codecVars, taskVars, auth_headers,
                   request, facade, snapshot>>

\* the session is closed only when the block finished normally
__aexit___unless_raised(raised) ==
    /\ ClientIdle
    /\ scope = "body"
    /\ IF raised THEN UNCHANGED <<session, closes, leaked>> ELSE CloseSession
    /\ scope' = IF raised THEN "raised" ELSE "left"
    /\ UNCHANGED <<config, call_limit, calls_made, metrics, metrics_at_call, callVars,
                   response_text, parsed, health, codecVars, taskVars, auth_headers,
                   request, facade, snapshot>>

\* the block is left, by its end or by an exception (`raised`): __aexit__ awaits
\* close() whatever its arguments are and returns None, so the exception goes on
__aexit__(raised) ==
    /\ ClientIdle
    /\ scope = "body"
    /\ CloseSession
    /\ scope' = IF raised THEN "raised" ELSE "left"
    /\ UNCHANGED <<config, call_limit, calls_made, metrics, metrics_at_call, callVars,
                   response_text, parsed, health, codecVars, taskVars, auth_headers,
                   request, facade, snapshot>>

\* the session request delivers a response whatever self.session is
SessionResponse_any(status, text, response_time) ==
    Response(status, text, response_time)

\* the session request of a client whose session is open delivers a response
SessionResponse(status, text, response_time) ==
    session = "open" /\ Response(status, text, response_time)

\* the items of {**self.metrics, "connection_pool_size": ..., "timeout": ...,
\* "retries": ...}, the metrics being m
MetricsItems(m) ==
    [requests_total |-> m.requests_total,
     requests_success |-> m.requests_success,
     requests_failed |-> m.requests_failed,
     response_time_total |-> m.response_time_total,
     response_time_avg |-> m.response_time_avg,
     connection_pool_size |-> config.connection_pool_size,
     timeout |-> config.timeout,
     retries |-> config.retries]

\* get_metrics returns a dict that follows self.metrics
MetricsResult_live(m) == [live |-> TRUE]

\* what get_metrics returns, the metrics being m: a new dict, which holds the
\* items of the moment and is not touched by the client again
MetricsResult(m) == [live |-> FALSE, value |-> MetricsItems(m)]

\* what the holder of a dict returned by get_metrics reads in it, the metrics of
\* the client being m
MetricsSeen(r, m) == IF r.live THEN MetricsItems(m) ELSE r.value

\* get_metrics is called, at any moment
GetMetrics ==
    /\ snapshot' = Some(MetricsResult(metrics))
    /\ UNCHANGED <<config, call_limit, calls_made, metrics, metrics_at_call, callVars,
                   response_text, parsed, health, codecVars, taskVars, auth_headers,
                   request, facade, lifeVars>>

\* the payloads given to reqmod and respmod over the life of a client
LifeRequest == CHOOSE r \in FacadeRequests : r.headers = <<>> /\ r.body = None
LifeResponse ==
    CHOOSE r \in FacadeResponses : r.headers = <<>> /\ r.body = None /\ r.status_code = 200

(***************************************************************************)
(* _make_request called concurrently on one client                         *)
(***************************************************************************)
Tasks == 1..NumTasks

\* what response.status and response.text() may be for a concurrent call: a
\* success and an error status, a text the parser accepts and one it rejects
TaskStatuses == {204, 500}
TaskTexts == {Text204, TextBadCode}

\* the ways the attempts of calls whose outcomes are compared fail
IndependentFailures == {"timeout", "connection"}

\* every call updates a copy of the metrics of its own
MetricsRead_private(t) == task[t].alone

\* self.metrics as a call reads it: the one dict of the client, read and written
\* with no await in between
MetricsRead(t) == metrics

\* self.metrics["requests_failed"] += 1 after the loop
FailedIncrement(m) == [m EXCEPT !.requests_failed = @ + 1]

\* another call is suspended in the middle of its attempts
OthersSuspended(t) ==
    \E u \in Tasks \ {t} : task[u].pc \in {"waiting", "attempting", "sleeping"}

\* another call is waiting out its backoff delay
OthersSleeping(t) == \E u \in Tasks \ {t} : task[u].pc = "sleeping"

\* the sleep of a call keeps the whole process from running
Blocked_by_sleep(t) == OthersSleeping(t)

\* whether call t is kept from running by the sleep of another call:
\* `await asyncio.sleep(delay)` suspends the sleeping coroutine only
Blocked(t) == FALSE

\* connections checked out of the connector of the session
InUse == Cardinality({t \in Tasks : task[t].conn})

\* the connector hands out one connection more than the configured size
PoolLimit_off_by_one == config.connection_pool_size + 1

\* TCPConnector(limit=self.config.connection_pool_size)
PoolLimit == config.connection_pool_size

\* the connector gives a connection at once: a limit of 0 is no limit
PoolHasRoom == PoolLimit = 0 \/ InUse < PoolLimit

\* the connection stays with the call after the attempt
Released_never(held) == held

\* whether the call still holds its connection when the `async with` block of the
\* session request is left, by return or by exception: the block releases it
Released(held) == FALSE

\* the session request of attempt a of call t is issued: the call gets a connection
\* when the connector has room, and waits for one otherwise
TaskAttempt(t, a) ==
    [task EXCEPT ![t].attempt = a,
                 ![t].pc = IF PoolHasRoom THEN "attempting" ELSE "waiting",
                 ![t].conn = PoolHasRoom,
                 ![t].during_sleep = IF task[t].pc = "idle"
                                     THEN OthersSleeping(t) ELSE @]

\* a sleep is over: no call counts any more as made during a sleep
SleepOver(tasks) == [u \in Tasks |-> [tasks[u] EXCEPT !.during_sleep = FALSE]]

\* call t is made: the request is built and the first session request is awaited
TaskCall(t) ==
    /\ task[t].pc = "idle"
    /\ ~Blocked(t)
    /\ IF 0 < LoopCount
       THEN /\ task' = TaskAttempt(t, 0)
            /\ UNCHANGED <<metrics, overlap>>
       ELSE /\ task' = [task EXCEPT ![t].pc = "raised",
                                    ![t].alone = FailedIncrement(@)]
            /\ metrics' = FailedIncrement(MetricsRead(t))
            /\ overlap' = (overlap \/ OthersSuspended(t))
    /\ UNCHANGED <<config, call_limit, calls_made, metrics_at_call, callVars,
                   response_text, parsed, health, codecVars, clientVars>>

\* a connection has been released and call t, which waited for one, gets it
TaskAcquire(t) ==
    /\ task[t].pc = "waiting"
    /\ ~Blocked(t)
    /\ PoolHasRoom
    /\ task' = [task EXCEPT ![t].pc = "attempting", ![t].conn = TRUE,
                            ![t].waited = TRUE]
    /\ UNCHANGED <<config, call_limit, calls_made, metrics, metrics_at_call, callVars,
                   response_text, parsed, health, codecVars, clientVars,
                   overlap>>

\* last_exception is an attribute of the client, which every call assigns
TaskException_shared(tasks, t, kind) ==
    [u \in Tasks |->
        [tasks[u] EXCEPT !.last_exception = NextLastException(@, kind)]]

\* the except clause of call t, its attempt having ended by `kind`: last_exception
\* is a local variable of the call
TaskException(tasks, t, kind) ==
    [tasks EXCEPT ![t].last_exception = NextLastException(@, kind)]

\* the session request of call t ends by an exception of any class, while waiting
\* for a connection or while using it: an except clause, none of which touches
\* the metrics, then the sleep before the retry, or the end of the loop
TaskFailure(t, kind) ==
    /\ task[t].pc \in {"waiting", "attempting"}
    /\ ~Blocked(t)
    /\ IF RetriesLeft(task[t].attempt)
       THEN /\ task' = TaskException([task EXCEPT ![t].pc = "sleeping",
                                                  ![t].conn = Released(@)], t, kind)
            /\ UNCHANGED <<metrics, overlap>>
       ELSE /\ task' = TaskException([task EXCEPT ![t].pc = "raised",
                                                  ![t].conn = Released(@),
                                                  ![t].alone = FailedIncrement(@)],
                                     t, kind)
            /\ metrics' = FailedIncrement(MetricsRead(t))
            /\ overlap' = (overlap \/ OthersSuspended(t))
    /\ UNCHANGED <<config, call_limit, calls_made, metrics_at_call, callVars,
                   response_text, parsed, health, codecVars, clientVars>>

\* the same, the exception being neither a timeout nor a client error
TaskTransportFailure(t) == TaskFailure(t, "fault")

\* call t has read a response text: the metrics are updated and the text is parsed;
\* the call returns, or the parser's exception is caught as in any other attempt
TaskResponse(t, status, text, response_time) ==
    LET m == UpdateMetrics(MetricsRead(t), status, response_time)
        alone == UpdateMetrics(task[t].alone, status, response_time)
    IN /\ task[t].pc = "attempting"
       /\ ~Blocked(t)
       /\ IF ParsedText[text].ok
          THEN /\ task' = [task EXCEPT ![t].pc = "returned",
                                       ![t].conn = Released(@),
                                       ![t].alone = alone,
                                       ![t].returned_text = text]
               /\ metrics' = m
          ELSE IF RetriesLeft(task[t].attempt)
          THEN /\ task' = TaskException([task EXCEPT ![t].pc = "sleeping",
                                                     ![t].conn = Released(@),
                                                     ![t].alone = alone],
                                        t, "unparseable")
               /\ metrics' = m
          ELSE /\ task' = TaskException([task EXCEPT ![t].pc = "raised",
                                                     ![t].conn = Released(@),
                                                     ![t].alone = FailedIncrement(alone)],
                                        t, "unparseable")
               /\ metrics' = FailedIncrement(m)
       /\ overlap' = (overlap \/ OthersSuspended(t))
       /\ UNCHANGED <<config, call_limit, calls_made, metrics_at_call, callVars,
                      response_text, parsed, health, codecVars, clientVars>>

\* the sleep of call t is over: the next session request is awaited
TaskWake(t) ==
    /\ task[t].pc = "sleeping"
    /\ ~Blocked(t)
    /\ IF task[t].attempt + 1 < LoopCount
       THEN /\ task' = SleepOver(TaskAttempt(t, task[t].attempt + 1))
            /\ UNCHANGED <<metrics, overlap>>
       ELSE /\ task' = SleepOver([task EXCEPT ![t].pc = "raised",
                                              ![t].alone = FailedIncrement(@)])
            /\ metrics' = FailedIncrement(MetricsRead(t))
            /\ overlap' = (overlap \/ OthersSuspended(t))
    /\ UNCHANGED <<config, call_limit, calls_made, metrics_at_call, callVars,
                   response_text, parsed, health, codecVars, clientVars>>

(***************************************************************************)
(* Specifications                                                          *)
(***************************************************************************)
\* IcapClient.__init__: the metrics start at zero
InitMetrics ==
    [requests_total |-> 0, requests_success |-> 0, requests_failed |-> 0,
     response_time_total |-> 0, response_time_avg |-> <<0, 1>>]

InitClient ==
    /\ metrics = InitMetrics
    /\ metrics_at_call = InitMetrics
    /\ calls_made = 0
    /\ pc = "idle"
    /\ attempt = 0
    /\ last_exception = "None"
    /\ result = None
    /\ error = ""
    /\ kinds = {}
    /\ last_kind = ""
    /\ returned_status = 0
    /\ returned_text = <<>>
    /\ slept = <<>>
    /\ started = 0
    /\ sent = <<>>
    /\ ended = 0
    /\ health = None

\* no concurrent call has been made
InitTasks ==
    /\ task = [t \in Tasks |->
                  [pc |-> "idle", attempt |-> 0, conn |-> FALSE,
                   alone |-> InitMetrics, during_sleep |-> FALSE,
                   waited |-> FALSE, last_exception |-> "None", returned_text |-> <<>>]]
    /\ overlap = FALSE

\* no operation of the client has been called
InitOperations ==
    /\ auth_headers = None
    /\ request = None
    /\ facade = None
    /\ snapshot = None

\* a client on which connect() has succeeded
InitFacade ==
    /\ InitOperations
    /\ session = "open"
    /\ scope = "out"
    /\ closes = 0
    /\ leaked = FALSE

\* no payload has been given to the encapsulation functions
InitCodec ==
    /\ http_data = NoPayload
    /\ encapsulated = None
    /\ serialized = None
    /\ reparsed = None
    /\ url = None

\* the IcapConfig defaults (timeout 30, backoff 1.0, 60.0, 2.0, pool size 10), any
\* retries
DefaultConfigs ==
    [retries : 0..MaxRetries, retry_delay : {1}, max_retry_delay : {60},
     backoff_factor : {<<2, 1>>}, timeout : {30}, connection_pool_size : {10},
     host : {DefaultHost}, port : {DefaultPort}, authentication : {<<>>}]

\* configurations with any backoff
BackoffConfigs ==
    [retries : 0..MaxBackoffRetries, retry_delay : 1..MaxRetryDelay,
     max_retry_delay : 1..MaxMaxRetryDelay, backoff_factor : BackoffFactors,
     timeout : {30}, connection_pool_size : {10},
     host : {DefaultHost}, port : {DefaultPort}, authentication : {<<>>}]

\* configurations with a small connection pool, 0 included, and one retry
PoolConfigs ==
    [retries : {1}, retry_delay : {1}, max_retry_delay : {60},
     backoff_factor : {<<2, 1>>}, timeout : {30},
     connection_pool_size : 0..MaxPoolSize,
     host : {DefaultHost}, port : {DefaultPort}, authentication : {<<>>}]

\* the default configuration with any authentication dict
AuthConfigs ==
    [retries : {3}, retry_delay : {1}, max_retry_delay : {60},
     backoff_factor : {<<2, 1>>}, timeout : {30}, connection_pool_size : {10},
     host : {DefaultHost}, port : {DefaultPort}, authentication : AuthDicts]

\* configurations of the clients on which reqmod, respmod and options are called
FacadeConfigs ==
    [retries : 0..1, retry_delay : {1}, max_retry_delay : {60},
     backoff_factor : {<<2, 1>>}, timeout : {30}, connection_pool_size : {10},
     host : {DefaultHost}, port : {DefaultPort}, authentication : FacadeAuths]

\* the configuration of the clients whose life is followed: one retry
LifeConfigs ==
    [retries : {1}, retry_delay : {1}, max_retry_delay : {60},
     backoff_factor : {<<2, 1>>}, timeout : {30}, connection_pool_size : {10},
     host : {DefaultHost}, port : {DefaultPort}, authentication : {<<>>}]

\* hosts and ports a client may be configured with
Hosts == {DefaultHost, <<"l", "o", "c", "a", "l", "h", "o", "s", "t">>, <<"h">>, <<"i", "c", "a", "p", ".", "t", "e", "s", "t">>, <<":", ":", "1">>}
Ports == {0, 1, 80, DefaultPort, 11344, 65535}

UrlConfigs ==
    [retries : {3}, retry_delay : {1}, max_retry_delay : {60},
     backoff_factor : {<<2, 1>>}, timeout : {30}, connection_pool_size : {10},
     host : Hosts, port : Ports, authentication : {<<>>}]

\* a client with the default backoff on which calls are made one after another,
\* every attempt ending in any way
Init ==
    /\ config \in DefaultConfigs
    /\ call_limit = MaxCalls
    /\ InitClient
    /\ InitTasks
    /\ InitFacade
    /\ InitCodec
    /\ response_text = <<>>
    /\ parsed = None

Next ==
    \/ Call
    \/ Timeout
    \/ ConnectionFailure
    \/ Fault
    \/ \E status \in ResponseStatuses, text \in ResponseTexts, rt \in ResponseTimes :
           Response(status, text, rt)
    \/ Wake

Spec == Init /\ [][Next]_vars

\* one call on a client with any backoff configuration
InitBackoff ==
    /\ config \in BackoffConfigs
    /\ call_limit = 1
    /\ InitClient
    /\ InitTasks
    /\ InitFacade
    /\ InitCodec
    /\ response_text = <<>>
    /\ parsed = None

SpecBackoff == InitBackoff /\ [][Next]_vars

\* status lines over a small alphabet
Alphabet == {" ", "\t", "2", "x"}

RECURSIVE Lines(_)
Lines(n) ==
    IF n = 0 THEN {<<>>}
    ELSE Lines(n - 1) \cup {Append(l, c) : l \in Lines(n - 1), c \in Alphabet}

\* the parser called on a status line, with and without the blank line after it,
\* and on whole responses
InitParse ==
    /\ config \in {c \in DefaultConfigs : c.retries = 0}
    /\ call_limit = 0
    /\ InitClient
    /\ InitTasks
    /\ InitFacade
    /\ InitCodec
    /\ response_text \in Lines(MaxLineLen) \cup {l \o CRLF \o CRLF : l \in Lines(MaxLineLen)}
                            \cup SampleTexts \cup HeaderTexts
    /\ parsed = None

NextParse == Parse

SpecParse == InitParse /\ [][NextParse]_vars

\* health_check called on a client with the default backoff, every attempt of its
\* Options call ending in any way
InitHealth ==
    /\ config \in DefaultConfigs
    /\ call_limit = 1
    /\ InitClient
    /\ InitTasks
    /\ InitFacade
    /\ InitCodec
    /\ response_text = <<>>
    /\ parsed = None

NextHealth ==
    \/ HealthCheck
    \/ Timeout
    \/ ConnectionFailure
    \/ Fault
    \/ \E status \in ResponseStatuses, text \in HealthTexts, rt \in ResponseTimes :
           Response(status, text, rt)
    \/ Wake
    \/ HealthCheckDone

SpecHealth == InitHealth /\ [][NextHealth]_vars

\* the encapsulation functions called on any payload, in any order
InitPayload ==
    /\ config \in {c \in DefaultConfigs : c.retries = 0}
    /\ call_limit = 0
    /\ InitClient
    /\ InitTasks
    /\ InitFacade
    /\ response_text = <<>>
    /\ parsed = None
    /\ http_data \in Payloads
    /\ encapsulated = None
    /\ serialized = None
    /\ reparsed = None
    /\ url = None

NextPayload ==
    \/ BuildEncapsulated
    \/ Serialize
    \/ ParseSerialized

SpecPayload == InitPayload /\ [][NextPayload]_vars

\* NumTasks calls made on one client and interleaved at their awaits
InitConcurrent ==
    /\ config \in {c \in DefaultConfigs : c.retries <= MaxTaskRetries}
    /\ call_limit = 0
    /\ InitClient
    /\ InitTasks
    /\ InitFacade
    /\ InitCodec
    /\ response_text = <<>>
    /\ parsed = None

NextConcurrent ==
    \E t \in Tasks :
        \/ TaskCall(t)
        \/ TaskTransportFailure(t)
        \/ \E status \in TaskStatuses, text \in TaskTexts, rt \in ResponseTimes :
               TaskResponse(t, status, text, rt)
        \/ TaskWake(t)

SpecConcurrent == InitConcurrent /\ [][NextConcurrent]_vars

\* the same calls on a client whose pool may be smaller than their number
InitPool ==
    /\ config \in PoolConfigs
    /\ call_limit = 0
    /\ InitClient
    /\ InitTasks
    /\ InitFacade
    /\ InitCodec
    /\ response_text = <<>>
    /\ parsed = None

NextPool ==
    \E t \in Tasks :
        \/ TaskCall(t)
        \/ TaskAcquire(t)
        \/ TaskTransportFailure(t)
        \/ \E text \in TaskTexts, rt \in ResponseTimes : TaskResponse(t, 204, text, rt)
        \/ TaskWake(t)

SpecPool == InitPool /\ [][NextPool]_vars

\* the same calls, their attempts ending by a timeout, by a connection error or by
\* a response that parses
NextIndependent ==
    \E t \in Tasks :
        \/ TaskCall(t)
        \/ \E kind \in IndependentFailures : TaskFailure(t, kind)
        \/ \E rt \in ResponseTimes : TaskResponse(t, 204, Text204, rt)
        \/ TaskWake(t)

SpecIndependent == InitConcurrent /\ [][NextIndependent]_vars

\* a handler built from any authentication dict, on which get_headers is called
InitAuth ==
    /\ config \in AuthConfigs
    /\ call_limit = 0
    /\ InitClient
    /\ InitTasks
    /\ InitFacade
    /\ InitCodec
    /\ response_text = <<>>
    /\ parsed = None

NextAuth == GetHeaders

SpecAuth == InitAuth /\ [][NextAuth]_vars

\* one call of reqmod, respmod or options with any payload, every attempt ending
\* in any way
InitFacadeCall ==
    /\ config \in FacadeConfigs
    /\ call_limit = 1
    /\ InitClient
    /\ InitTasks
    /\ InitFacade
    /\ InitCodec
    /\ response_text = <<>>
    /\ parsed = None

NextFacade ==
    \/ \E http_request \in FacadeRequests : Reqmod(http_request)
    \/ \E http_response \in FacadeResponses : Respmod(http_response)
    \/ Options
    \/ Timeout
    \/ ConnectionFailure
    \/ Fault
    \/ \E status \in ResponseStatuses, text \in ResponseTexts, rt \in ResponseTimes :
           Response(status, text, rt)
    \/ Wake
    \/ FacadeDone

SpecFacade == InitFacadeCall /\ [][NextFacade]_vars

\* a client as __init__ leaves it, self.session being None, on which connect,
\* close, reqmod, respmod, options and get_metrics are called one after another,
\* inside an `async with` block or not; a session request delivers
\* a response when the session is open, and raises an exception that is neither a
\* timeout nor a client error at any time, as it does when self.session is None
\* (AttributeError) or closed (RuntimeError)
InitLifecycle ==
    /\ config \in LifeConfigs
    /\ call_limit = MaxCalls
    /\ InitClient
    /\ InitTasks
    /\ InitOperations
    /\ session = "None"
    /\ scope = "out"
    /\ closes = 0
    /\ leaked = FALSE
    /\ InitCodec
    /\ response_text = <<>>
    /\ parsed = None

NextLifecycle ==
    \/ \E ok \in BOOLEAN : Connect(ok)
    \/ Close
    \/ \E ok \in BOOLEAN : __aenter__(ok)
    \/ \E raised \in BOOLEAN : __aexit__(raised)
    \/ Reqmod(LifeRequest)
    \/ Respmod(LifeResponse)
    \/ Options
    \/ Fault
    \/ \E status \in TaskStatuses, rt \in ResponseTimes :
           SessionResponse(status, Text204, rt)
    \/ Wake
    \/ FacadeDone
    \/ GetMetrics

SpecLifecycle == InitLifecycle /\ [][NextLifecycle]_vars

\* a client with any host and port, on which _build_icap_url is called
InitUrl ==
    /\ config \in UrlConfigs
    /\ call_limit = 0
    /\ InitClient
    /\ InitTasks
    /\ InitFacade
    /\ InitCodec
    /\ response_text = <<>>
    /\ parsed = None

NextUrl == \E method \in {"REQMOD", "RESPMOD", "OPTIONS"} : BuildUrl(method)

SpecUrl == InitUrl /\ [][NextUrl]_vars

\* an attempt under way ends, in any way
AttemptEnds ==
    \/ Timeout
    \/ ConnectionFailure
    \/ Fault
    \/ \E status \in ResponseStatuses, text \in ResponseTexts, rt \in ResponseTimes :
           Response(status, text, rt)

\* one call on a client with the default backoff
InitOneCall ==
    /\ config \in DefaultConfigs
    /\ call_limit = 1
    /\ InitClient
    /\ InitTasks
    /\ InitFacade
    /\ InitCodec
    /\ response_text = <<>>
    /\ parsed = None

\* the same call when every attempt ends (the session request returns or raises,
\* at the latest by the timeout of the session) and every asyncio.sleep returns
SpecFair ==
    InitOneCall /\ [][Next]_vars /\ WF_vars(AttemptEnds) /\ WF_vars(Wake)

(***************************************************************************)
(* Properties of the retry loop                                            *)
(***************************************************************************)
CallOver == pc \in {"returned", "raised"}

\* every attempt of the current call that has ended failed at the transport
OnlyTransportFailures == kinds \subseteq TransportFailures

\* C1: with retries = N, a call whose attempts all fail at the transport (timeout,
\* connection error, unexpected fault) issues exactly N+1 session requests, each one
\* only after the one before it has ended, and raises when the last one has ended.
C1_AttemptsWhenTransportFails ==
    /\ started - ended \in {0, 1}
    /\ (started - ended = 1) <=> (pc = "attempting")
    /\ (calls_made > 0 /\ OnlyTransportFailures) =>
          /\ started <= config.retries + 1
          /\ pc # "returned"
          /\ (pc = "raised" => started = config.retries + 1 /\ ended = started)
          /\ (ended = config.retries + 1 => pc = "raised")

C1_Witness ==
    /\ pc = "raised"
    /\ OnlyTransportFailures
    /\ config.retries = MaxRetries
    /\ ended = MaxRetries + 1
    /\ MaxRetries > 0

\* C2: when a call raises after its attempts have failed, the error raised is that
\* of the final attempt: a timeout error exactly when the final attempt timed out, a
\* connection error exactly when the final attempt ended by a connection failure,
\* whatever the earlier attempts ended by.
C2_LastErrorRaised ==
    pc = "raised" =>
        /\ (error = "IcapTimeoutError") <=> (last_kind = "timeout")
        /\ (error = "IcapConnectionError") <=> (last_kind = "connection")
        /\ error # ""

C2_Witness ==
    /\ pc = "raised"
    /\ last_kind = "timeout"
    /\ "connection" \in kinds
    /\ error = "IcapTimeoutError"

\* min(retry_delay * backoff_factor^i, max_retry_delay), written from the
\* configuration alone
ExpectedDelay(i) ==
    LET num == config.retry_delay * Pow(config.backoff_factor[1], i)
        den == Pow(config.backoff_factor[2], i)
    IN IF num <= config.max_retry_delay * den
       THEN <<num, den>>
       ELSE <<config.max_retry_delay, 1>>

\* the attempts of the current call that have failed
FailedAttempts == IF pc = "returned" THEN ended - 1 ELSE ended

\* C3: the delay slept after failed attempt i (i = 0..N-1, N = retries) is
\* min(retry_delay * backoff_factor^i, max_retry_delay), one delay per failed attempt
\* but the last of N+1; with backoff_factor >= 1 and retry_delay > 0 the delays of
\* one call never decrease and never exceed max_retry_delay.
C3_BackoffDelays ==
    /\ Len(slept) = Min(FailedAttempts, config.retries)
    /\ \A i \in 1..Len(slept) : FracEq(slept[i], ExpectedDelay(i - 1))
    /\ (config.backoff_factor[1] >= config.backoff_factor[2] /\ config.retry_delay > 0) =>
          /\ \A i \in 1..Len(slept) : FracLeq(slept[i], <<config.max_retry_delay, 1>>)
          /\ \A i \in 1..(Len(slept) - 1) : FracLeq(slept[i], slept[i + 1])

\* three sleeps: the delay grows, then meets the cap
C3_Witness ==
    /\ pc = "raised"
    /\ Len(slept) >= 3
    /\ ~FracLeq(slept[2], slept[1])
    /\ slept[3] = <<config.max_retry_delay, 1>>
    /\ config.retry_delay * Pow(config.backoff_factor[1], 2)
           > config.max_retry_delay * Pow(config.backoff_factor[2], 2)

\* C4: when every attempt receives a response with an error status (>= 400) and
\* retries = R, the call raises IcapError after exactly R+1 session requests, and has
\* then added R+1 to requests_total and R+1 to requests_failed.
C4_ErrorStatusRetried ==
    (CallOver /\ kinds = {"response"} /\ returned_status >= 400) =>
        /\ pc = "raised"
        /\ error = "IcapError"
        /\ started = config.retries + 1
        /\ metrics.requests_total = metrics_at_call.requests_total + config.retries + 1
        /\ metrics.requests_failed = metrics_at_call.requests_failed + config.retries + 1

C6_TotalCountsEveryAttempt ==
    [][metrics'.requests_total =
           metrics.requests_total + (IF ended' = ended + 1 THEN 1 ELSE 0)]_vars

\* C7: with retries = 0, requests_success + requests_failed = requests_total after
\* every completed call.
C7_ZeroRetryBalance ==
    (config.retries = 0 /\ CallOver) =>
        metrics.requests_success + metrics.requests_failed = metrics.requests_total

\* C8: a completed call has added exactly 1 to requests_success + requests_failed,
\* however many attempts it made and however each of them ended.
C8_OneTerminalOutcome ==
    CallOver =>
        metrics.requests_success + metrics.requests_failed
            = metrics_at_call.requests_success + metrics_at_call.requests_failed + 1

\* C9: an attempt whose response fails to parse ends the call at once with a
\* protocol error: no sleep and no further attempt follow it.
C9_ParseFailureNotRetried ==
    "unparseable" \in kinds =>
        /\ pc = "raised"
        /\ error = "IcapProtocolError"
        /\ last_kind = "unparseable"
        /\ Cardinality(kinds) = 1
        /\ slept = <<>>

(***************************************************************************)
(* Properties of the parser                                                *)
(***************************************************************************)
\* str.split() with no argument: the maximal runs of non-whitespace characters
RECURSIVE WhitespaceTokens(_)
WhitespaceTokens(s) ==
    LET t == LStrip(s)
        n == CHOOSE k \in 0..Len(t) :
                 /\ \A i \in 1..k : t[i] \notin PyWhitespace
                 /\ (k < Len(t) => t[k + 1] \in PyWhitespace)
    IN IF Len(t) = 0 THEN <<>>
       ELSE <<Take(t, n)>> \o WhitespaceTokens(Drop(t, n))

\* a token that is an integer: digits, after an optional sign
IsIntegerToken(tok) ==
    LET b == IF Len(tok) > 0 /\ tok[1] \in {"+", "-"} THEN Tail(tok) ELSE tok IN
    /\ Len(b) > 0
    /\ \A i \in 1..Len(b) : b[i] \in Digits

\* the status line of a text: its first line
StatusLineOf(text) == PySplit(text, CRLF, -1)[1]

MalformedStatusLine(text) ==
    LET toks == WhitespaceTokens(StatusLineOf(text)) IN
    \/ Len(toks) < 2
    \/ ~IsIntegerToken(toks[2])

\* C10: the parser fails with a protocol error exactly when the status line has
\* fewer than two whitespace-separated tokens or its second token is no integer,
\* and returns a response for every other text.
C10_ProtocolErrorOnBadStatusLine ==
    parsed # None =>
        IF MalformedStatusLine(response_text)
        THEN ~parsed[1].ok /\ parsed[1].error = "IcapProtocolError"
        ELSE parsed[1].ok


(***************************************************************************)
(* Properties of health_check                                              *)
(***************************************************************************)
\* the message of the exception an exhausted call raises, by the way its last
\* attempt ended
ExpectedMessage ==
    CASE last_kind = "timeout" -> "Request timeout: {e}"
      [] last_kind = "connection" -> "Connection error: {e}"
      [] last_kind \in {"fault", "unparseable"} -> "Unexpected error: {e}"

\* C11: health_check never raises: whatever the outcome of its Options call it
\* returns a summary, and when Options raised the summary is
\* {status: "unhealthy", error: <message of the error>}.
C11_HealthCheckNeverRaises ==
    health # None =>
        /\ ~health[1].raised
        /\ pc = "raised" =>
               health[1].value = [status |-> "unhealthy", error |-> ExpectedMessage]

\* Options raised after an unparseable response, every retry used, and health_check
\* returned the unhealthy summary
C11_Witness ==
    /\ health # None
    /\ pc = "raised"
    /\ config.retries > 0
    /\ last_kind = "unparseable"
    /\ "timeout" \in kinds
    /\ health[1].value.status = "unhealthy"

REQMOD == <<"R", "E", "Q", "M", "O", "D">>
RESPMOD == <<"R", "E", "S", "P", "M", "O", "D">>

HasHeader(headers, name) == \E i \in 1..Len(headers) : headers[i][1] = name

HeaderValue(headers, name) ==
    headers[CHOOSE i \in 1..Len(headers) : headers[i][1] = name][2]

\* C12: on a returned response health_check reports "healthy" iff status_code < 400
\* and "unhealthy" otherwise; its methods list is the Methods header split on commas
\* (`Methods: REQMOD,RESPMOD` gives ["REQMOD", "RESPMOD"]), and the empty list when
\* there is no Methods header.
C12_HealthOfResponse ==
    (health # None /\ pc = "returned") =>
        LET h == health[1].value
            r == result[1]
        IN /\ ~health[1].raised
           /\ r.status_code < 400 => h.status = "healthy"
           /\ r.status_code >= 400 => h.status = "unhealthy"
           /\ returned_text = TextOptions => h.methods = <<REQMOD, RESPMOD>>
           /\ ~HasHeader(r.headers, HeaderMethods) => h.methods = <<>>
           /\ (HasHeader(r.headers, HeaderMethods)
                 /\ HeaderValue(r.headers, HeaderMethods) # <<>>) =>
                  /\ PyJoin(h.methods, <<",">>) = HeaderValue(r.headers, HeaderMethods)
                  /\ \A i \in 1..Len(h.methods) : Find(h.methods[i], <<",">>, 1) = 0

\* health_check returned the summary of an OPTIONS response that names two methods
C12_Witness ==
    /\ health # None
    /\ pc = "returned"
    /\ returned_text = TextOptions
    /\ health[1].value.status = "healthy"
    /\ Len(health[1].value.methods) = 2

(***************************************************************************)
(* Properties of the timing metrics                                        *)
(***************************************************************************)
\* response_time_avg * requests_total == response_time_total in metrics m
AverageConsistent(m) ==
    m.requests_total > 0 =>
        m.response_time_avg[1] * m.requests_total
            = m.response_time_total * m.response_time_avg[2]

\* C19: after every attempt, attempts that fail at the transport included,
\* response_time_total has grown by the elapsed time of the attempt and
\* response_time_avg is response_time_total / requests_total, so that between
\* attempts response_time_avg * requests_total == response_time_total whenever
\* requests_total > 0.
C19_TimingCountsEveryAttempt ==
    [][ended' = ended + 1 =>
           /\ \E elapsed \in ResponseTimes :
                  metrics'.response_time_total = metrics.response_time_total + elapsed
           /\ AverageConsistent(metrics')]_vars

(***************************************************************************)
(* Properties of the parser on whole responses                             *)
(***************************************************************************)
NoContent == <<"N", "o", " ", "C", "o", "n", "t", "e", "n", "t">>
MethodsValue ==
    <<"R", "E", "Q", "M", "O", "D", ",", " ", "R", "E", "S", "P", "M", "O", "D", ",", " ",
      "O", "P", "T", "I", "O", "N", "S">>

\* a dict kept as a sequence of pairs, as the set of its items
Items(d) == {d[i] : i \in 1..Len(d)}

\* C16 as stated: the response "ICAP/1.0 204 No Content", ISTag: X, Service: S,
\* Methods: REQMOD, RESPMOD, OPTIONS (CRLF line ends) parses to status_code 204,
\* reason "No Content", no body, and headers keyed by the lower-cased names.
C16_LowerCasedHeaderKeys ==
    (parsed # None /\ response_text = TextHeaders204) =>
        /\ parsed[1].ok
        /\ parsed[1].status_code = 204
        /\ parsed[1].reason = NoContent
        /\ parsed[1].body = None
        /\ Items(parsed[1].headers) =
               {<< <<"i", "s", "t", "a", "g">>, <<"X">> >>,
                << <<"s", "e", "r", "v", "i", "c", "e">>, <<"S">> >>,
                << <<"m", "e", "t", "h", "o", "d", "s">>, MethodsValue >>}

\* C16, amended: the same response parses to status_code 204, reason "No Content",
\* no body, and headers keyed by the names as written:
\* {"ISTag": "X", "Service": "S", "Methods": "REQMOD, RESPMOD, OPTIONS"}.
C16_HeaderKeysAsWritten ==
    (parsed # None /\ response_text = TextHeaders204) =>
        /\ parsed[1].ok
        /\ parsed[1].status_code = 204
        /\ parsed[1].reason = NoContent
        /\ parsed[1].body = None
        /\ Items(parsed[1].headers) =
               {<<HeaderISTag, <<"X">> >>, <<HeaderService, <<"S">> >>,
                <<HeaderMethods, MethodsValue>>}

\* the parser has returned a response with three headers for that text
C16_Witness ==
    /\ parsed # None
    /\ response_text = TextHeaders204
    /\ parsed[1].ok
    /\ Len(parsed[1].headers) = 3

\* C17: a response whose lines end with a bare LF is parsed like the CRLF form: the
\* version, the integer status code, a reason that stops at the end of the first
\* line ("No Content"), and a header for every header line, keyed by the name as
\* written ("ISTag", "Service", "Methods").
C17_BareLFParsedLikeCRLF ==
    (parsed # None /\ response_text = TextBareLF) =>
        /\ parsed[1].ok
        /\ parsed[1].version = ICAP10
        /\ parsed[1].status_code = 204
        /\ parsed[1].reason = NoContent
        /\ Items(parsed[1].headers) =
               {<<HeaderISTag, <<"W", "3", "E", "4", "R", "7", "U", "9">> >>,
                <<HeaderService, <<"G", "3", "I", "C", "A", "P">> >>,
                <<HeaderMethods, MethodsValue>>}

(***************************************************************************)
(* Properties of the encapsulation functions                               *)
(***************************************************************************)
ReqHdrPrefix ==
    <<"r", "e", "q", "-", "h", "d", "r", "=", "0", ",", " ",
      "n", "u", "l", "l", "-", "b", "o", "d", "y", "=">>

ResHdrPrefix ==
    <<"r", "e", "s", "-", "h", "d", "r", "=", "0", ",", " ",
      "n", "u", "l", "l", "-", "b", "o", "d", "y", "=">>

\* the body as serialize writes it, empty when there is none
WrittenBody ==
    IF http_data.body # None THEN Utf8DecodeIgnore(http_data.body[1]) ELSE <<>>

\* the bytes of the serialized payload that precede its body
HeaderBlockLength == Len(serialized[1].bytes) - Len(WrittenBody)

\* C13: for a Request (Response) payload build_encapsulated_header returns
\* "req-hdr=0, null-body=<N>" ("res-hdr=0, null-body=<N>") with N the byte length of
\* the header block serialize produces for the same payload; for no payload it
\* returns "null-body=0".
C13_EncapsulatedNamesHeaderBlockLength ==
    encapsulated # None =>
        /\ http_data.kind = "none" =>
               encapsulated[1] = <<"n", "u", "l", "l", "-", "b", "o", "d", "y", "=", "0">>
        /\ (http_data.kind = "request" /\ serialized # None) =>
               encapsulated[1] = ReqHdrPrefix \o IntToStr(HeaderBlockLength)
        /\ (http_data.kind = "response" /\ serialized # None) =>
               encapsulated[1] = ResHdrPrefix \o IntToStr(HeaderBlockLength)

\* C14: _build_encapsulated_header returns exactly "req-hdr=0, null-body=75" for an
\* HttpRequest and exactly "res-hdr=0, null-body=120" for an HttpResponse, whatever
\* the payload holds.
C14_FixedEncapsulatedHeader ==
    encapsulated # None =>
        /\ http_data.kind = "request" => encapsulated[1] = ReqHdrPrefix \o <<"7", "5">>
        /\ http_data.kind = "response" =>
               encapsulated[1] = ResHdrPrefix \o <<"1", "2", "0">>

\* the header was built for a response with headers and a body, whose header block
\* is shorter than 120 bytes
C14_Witness ==
    /\ encapsulated # None
    /\ serialized # None
    /\ http_data.kind = "response"
    /\ Len(http_data.headers) = MaxHeaders
    /\ BodyPresent(http_data)
    /\ HeaderBlockLength < 120
    /\ encapsulated[1] = ResHdrPrefix \o <<"1", "2", "0">>

\* the headers and the body of the payload are printable ASCII
PrintableAscii(data) ==
    data.body # None => \A i \in 1..Len(data.body[1]) : data.body[1][i] # InvalidByte

\* C15: parse_response is a left inverse of serialize: for any Request or Response
\* with printable-ASCII headers and body, parsing the serialized message succeeds
\* and yields the same header map and the same body.
C15_ParseInvertsSerialize ==
    (reparsed # None /\ PrintableAscii(http_data)) =>
        /\ reparsed[1].ok
        /\ reparsed[1].headers = http_data.headers
        /\ reparsed[1].body = http_data.body

RECURSIVE HeaderBlock(_)
HeaderBlock(headers) ==
    IF headers = <<>> THEN <<>>
    ELSE headers[1][1] \o <<":", " ">> \o headers[1][2] \o CRLF \o HeaderBlock(Tail(headers))

\* C18: serialize emits the start line, every header as "Name: Value" in insertion
\* order, a blank line, then the body if present; the header block ends with an
\* empty line (CRLF CRLF) also when there is no body or an empty one.
C18_SerializedLayout ==
    (serialized # None /\ http_data.kind # "none" /\ PrintableAscii(http_data)) =>
        serialized[1].bytes =
            StartLine(http_data) \o CRLF \o HeaderBlock(http_data.headers) \o CRLF
                \o WrittenBody

(***************************************************************************)
(* Properties of concurrent calls                                          *)
(***************************************************************************)
RECURSIVE SumAlone(_, _)
SumAlone(counter, n) ==
    IF n = 0 THEN 0 ELSE task[n].alone[counter] + SumAlone(counter, n - 1)

AllTasksOver == \A t \in Tasks : task[t].pc \in {"returned", "raised"}

\* C20: with several calls running concurrently on one client, under every
\* interleaving at their suspension points no increment is lost: once all calls
\* have finished, every counter equals the sum of the increments each call makes
\* when run alone.
C20_NoLostIncrement ==
    AllTasksOver =>
        \A counter \in {"requests_total", "requests_success", "requests_failed",
                        "response_time_total"} :
            metrics[counter] = SumAlone(counter, NumTasks)

\* all calls are over, each has had a response counted, one has failed, and a call
\* updated the metrics while another was suspended in the middle of its attempts
C20_Witness ==
    /\ AllTasksOver
    /\ overlap
    /\ \A t \in Tasks : task[t].alone.requests_total > 0
    /\ \E t \in Tasks : task[t].pc = "raised"
    /\ metrics.requests_total >= NumTasks

(***************************************************************************)
(* Properties of the error classes                                         *)
(***************************************************************************)
\* C26: an unexpected fault during an attempt (neither a timeout nor a connection
\* error) is classified as ServerError: it drives the retry loop, and when it is
\* the failure of the last attempt the caller receives an error of kind ServerError.
C26_FaultIsServerError ==
    /\ (pc \in {"attempting", "sleeping"} /\ last_kind = "fault") =>
           last_exception = "IcapServerError"
    /\ (pc = "raised" /\ last_kind = "fault") => error = "IcapServerError"

(***************************************************************************)
(* Properties of the backoff sleep and of the connection pool              *)
(***************************************************************************)
\* C21: a call waiting out its backoff delay suspends only itself: while it
\* sleeps, another call on the same client can start an attempt and run to
\* completion.
C21_SleepSuspendsOnlyItself ==
    \A t \in Tasks :
        task[t].pc = "sleeping" =>
            \A u \in Tasks \ {t} :
                /\ ~Blocked(u)
                /\ task[u].pc = "idle" => ENABLED TaskCall(u)
                /\ task[u].pc = "attempting" => ENABLED TaskTransportFailure(u)
                /\ task[u].pc = "sleeping" => ENABLED TaskWake(u)

\* a call sleeps before its first retry, and the other call, made during that
\* sleep, has returned
C21_Witness ==
    \E t \in Tasks, u \in Tasks :
        /\ t # u
        /\ task[t].pc = "sleeping"
        /\ task[t].attempt = 0
        /\ task[u].during_sleep
        /\ task[u].pc = "returned"
        /\ \A v \in Tasks \ {t, u} : task[v].pc = "idle"

\* C22 as stated: the connections checked out of the pool never exceed
\* connection_pool_size, whatever its value
C22_AtMostPoolSizeInUse == InUse <= config.connection_pool_size

\* C22: with a connection_pool_size of one or more, never more than that many
\* connections are checked out; a call that needs one when all are in use is
\* suspended without a connection, stays suspended while all are in use, and can
\* proceed as soon as one is free. A connection_pool_size of 0 sets no limit.
C22_PoolBoundsConcurrency ==
    /\ config.connection_pool_size >= 1 => InUse <= config.connection_pool_size
    /\ config.connection_pool_size = 0 =>
           \A t \in Tasks : task[t].pc # "waiting"
    /\ \A t \in Tasks :
           task[t].pc = "waiting" =>
               /\ ~task[t].conn
               /\ (ENABLED TaskAcquire(t)) <=> (InUse < config.connection_pool_size)

\* a call that had to wait for a connection has got one and has returned, while
\* the pool is in use again
C22_Witness ==
    \E t \in Tasks :
        /\ task[t].waited /\ task[t].pc = "returned"
        /\ config.connection_pool_size = 1
        /\ InUse = 1

\* C23: a call holds a connection only during an attempt: not while it waits for
\* one, not during its backoff sleep, not after it has returned or raised
C23_ConnectionHeldForOneAttempt ==
    \A t \in Tasks : task[t].conn => task[t].pc = "attempting"

\* a call sleeps between attempts and another has returned, neither holding the
\* connection that each of them used, which a third party may take
C23_Witness ==
    \E t \in Tasks, u \in Tasks :
        /\ task[t].pc = "sleeping" /\ task[u].pc = "returned"
        /\ config.connection_pool_size = 1
        /\ InUse = 0

(***************************************************************************)
(* Properties of the authentication handler                                *)
(***************************************************************************)
\* the value of a field of the authentication dict, the empty string when the
\* field is missing
Credential(key) ==
    IF \E i \in 1..Len(config.authentication) : config.authentication[i][1] = key
    THEN LET i == CHOOSE j \in 1..Len(config.authentication) :
                      config.authentication[j][1] = key
         IN config.authentication[i][2]
    ELSE <<>>

\* C28: for every method and every credential map, missing fields counting as empty
\* strings, get_headers returns {} for None, {Authorization: "Bearer " + token} for
\* Bearer, {Authorization: "Bearer " + jwt_token} for JWT, {header_name (default
\* "X-API-Key"): api_key} for APIKey, and for Basic one Authorization entry that
\* starts with "Basic "
C28_AuthHeadersPerMethod ==
    auth_headers # None =>
        LET headers == auth_headers[1]
            method == IF \E i \in 1..Len(config.authentication) :
                             config.authentication[i][1] = KeyMethod
                      THEN Credential(KeyMethod) ELSE MethodNone
        IN /\ method = MethodNone => headers = <<>>
           /\ method = MethodBearer =>
                  headers = << <<Authorization, BearerPrefix \o Credential(KeyToken)>> >>
           /\ method = MethodJwt =>
                  headers = << <<Authorization, BearerPrefix \o Credential(KeyJwtToken)>> >>
           /\ method = MethodApiKey =>
                  headers = << <<IF Credential(KeyHeaderName) = <<>>
                                 THEN XAPIKey ELSE Credential(KeyHeaderName),
                                 Credential(KeyApiKey)>> >>
           /\ method = MethodBasic =>
                  /\ Len(headers) = 1
                  /\ headers[1][1] = Authorization
                  /\ Len(headers[1][2]) >= Len(BasicPrefix)
                  /\ SubSeq(headers[1][2], 1, Len(BasicPrefix)) = BasicPrefix

\* the Basic method with the credentials of test_basic_authentication and the
\* other fields missing: the header is "Basic " and the base64 of "user:pass"
C28_Witness ==
    /\ config.authentication = << <<KeyMethod, MethodBasic>>, <<KeyUsername, <<"u", "s", "e", "r">>>>,
                                  <<KeyPassword, <<"p", "a", "s", "s">>>> >>
    /\ auth_headers = Some(<< <<Authorization,
                                 BasicPrefix \o <<"d", "X", "N", "l", "c", "j", "p", "w", "Y", "X", "N", "z">>>> >>)

(***************************************************************************)
(* Properties of reqmod, respmod and options                               *)
(***************************************************************************)
\* C25: reqmod, respmod and options return the response _make_request returned,
\* and raise the exception it raised, of the same class and with the same message
C25_FacadePassesOutcomeThrough ==
    (facade # None /\ request[1].caller \in {"reqmod", "respmod", "options"}) =>
        /\ pc \in {"returned", "raised"}
        /\ pc = "returned" =>
               /\ ~facade[1].raised
               /\ facade[1].response = result[1]
        /\ pc = "raised" =>
               /\ facade[1].raised
               /\ facade[1].error = error
               /\ facade[1].message = ErrorMessage(error)

\* reqmod has raised the IcapTimeoutError of the last attempt, an earlier attempt
\* having ended by a connection error
C25_Witness ==
    /\ facade # None
    /\ request[1].caller = "reqmod"
    /\ facade[1].raised
    /\ facade[1].error = "IcapTimeoutError"
    /\ kinds = {"connection", "timeout"}

C24_ScopeClosesSessionOnce ==
    [][/\ (scope # "body" /\ scope' = "body") => session' = "open"
       /\ scope' = "body" => session' # "None"
       /\ (scope = "body" /\ scope' # "body") =>
              /\ scope' \in {"left", "raised"}
              /\ closes' = closes + 1
              /\ session' = "closed"]_vars

\* the block was left by an exception after a call made inside it, and the session
\* has been closed once
C24_Witness ==
    /\ scope = "raised"
    /\ calls_made > 0
    /\ closes = 1
    /\ session = "closed"

\* C29: get_metrics returns the values the five metrics have at the call, with
\* connection_pool_size, timeout and retries; it changes nothing in the client;
\* what it returned reads the same after any later step of the client
C29_GetMetricsSnapshot ==
    [][/\ snapshot' # snapshot =>
              /\ MetricsSeen(snapshot'[1], metrics') = MetricsItems(metrics)
              /\ UNCHANGED <<config, metrics, callVars, request, facade, health,
                             lifeVars>>
       /\ (snapshot # None /\ snapshot' = snapshot) =>
              MetricsSeen(snapshot'[1], metrics') = MetricsSeen(snapshot[1], metrics)]_vars

\* the metrics have moved on since get_metrics returned: what it returned still
\* shows one request where the client now counts two
C29_Witness ==
    /\ snapshot # None
    /\ MetricsSeen(snapshot[1], metrics).requests_total = 1
    /\ MetricsSeen(snapshot[1], metrics).retries = config.retries
    /\ metrics.requests_total = 2

C31_CallTerminates ==
    /\ [](started <= config.retries + 1 /\ Len(slept) <= config.retries)
    /\ [](pc \in {"attempting", "sleeping"} => <>(pc \in {"returned", "raised"}))
    /\ [][(pc \in {"returned", "raised"}) => UNCHANGED pc]_vars

\* a call has raised after every attempt and every sleep its configuration allows
C31_Witness ==
    /\ pc = "raised"
    /\ config.retries = MaxRetries
    /\ started = config.retries + 1
    /\ Len(slept) = config.retries

(***************************************************************************)
(* Properties of _build_icap_url                                           *)
(***************************************************************************)
\* the decimal digits of a port number, most significant first
PortDigits(n) ==
    LET len == CHOOSE k \in 1..5 : n < Pow(10, k) /\ (k = 1 \/ n >= Pow(10, k - 1))
    IN [i \in 1..len |-> DigitChar((n \div Pow(10, len - i)) % 10)]

\* C32: _build_icap_url gives "icap://{host}:{port}/reqmod" for REQMOD,
\* ".../respmod" for RESPMOD and ".../options" for OPTIONS, with the configured
\* host and port, and a later call with the same method gives the same URL
C32_BuildUrl ==
    [][url' # None =>
          LET prefix == <<"i", "c", "a", "p", ":", "/", "/">> \o config.host \o <<":">> \o PortDigits(config.port)
              u == url'[1]
          IN /\ u.method = "REQMOD" => u.value = prefix \o <<"/", "r", "e", "q", "m", "o", "d">>
             /\ u.method = "RESPMOD" => u.value = prefix \o <<"/", "r", "e", "s", "p", "m", "o", "d">>
             /\ u.method = "OPTIONS" => u.value = prefix \o <<"/", "o", "p", "t", "i", "o", "n", "s">>
             /\ (url # None /\ url[1].method = u.method) => u.value = url[1].value]_vars

\* the URL of test_build_icap_url for REQMOD
C32_Witness ==
    /\ url # None
    /\ url[1].method = "REQMOD"
    /\ url[1].value =
        <<"i", "c", "a", "p", ":", "/", "/", "1", "2", "7", ".", "0", ".", "0", ".",
          "1", ":", "1", "3", "4", "4", "/", "r", "e", "q", "m", "o", "d">>

(***************************************************************************)
(* Properties of the backoff sleep                                         *)
(***************************************************************************)
\* C33: a call sleeps only after a failed attempt whose index is below retries,
\* exactly once before the next attempt, which is the only thing that follows the
\* sleep; after the failed attempt of index retries it raises without sleeping;
\* with retries = 0 it never sleeps
C33_SleepOnlyBetweenAttempts ==
    [][/\ pc' = "sleeping" =>
              /\ attempt' < config.retries
              /\ Len(slept') = attempt' + 1
              /\ ended' = attempt' + 1
       /\ (pc # "sleeping" /\ pc' = "sleeping") =>
              /\ pc = "attempting"
              /\ attempt' = attempt
              /\ Len(slept') = Len(slept) + 1
              /\ last_kind' # "response"
       /\ (pc = "sleeping" /\ pc' # "sleeping") =>
              /\ pc' = "attempting"
              /\ attempt' = attempt + 1
              /\ slept' = slept
       /\ pc' = "attempting" => Len(slept') = attempt'
       /\ (pc = "attempting" /\ pc' = "raised") =>
              /\ attempt = config.retries
              /\ slept' = slept
              /\ Len(slept) = config.retries
       /\ config.retries = 0 => slept' = <<>>]_vars

\* the last attempt of a call with two retries has failed after two sleeps, one
\* after each of the attempts before it
C33_Witness ==
    /\ pc = "raised"
    /\ config.retries = 2
    /\ attempt = 2
    /\ Len(slept) = 2
    /\ ended = 3

(***************************************************************************)
(* Properties of the header and body parts of a parsed response            *)
(***************************************************************************)
\* the lines of a text, and the index of the first blank line after the status line
\* (0 when there is none)
TextLines(text) == PySplit(text, CRLF, -1)
BlankLine(text) ==
    LET lines == TextLines(text) IN
    IF \E k \in 2..Len(lines) : lines[k] = <<>>
    THEN CHOOSE k \in 2..Len(lines) :
             lines[k] = <<>> /\ \A j \in 2..(k - 1) : lines[j] # <<>>
    ELSE 0

\* C34: only the lines after the first blank line form the body; a text with no
\* blank line has no body, and a body never holds the status line or a header line
C34_BodyOnlyAfterBlankLine ==
    (parsed # None /\ parsed[1].ok) =>
        LET lines == TextLines(response_text)
            blank == BlankLine(response_text)
        IN /\ blank = 0 => parsed[1].body = None
           /\ (blank # 0 /\ parsed[1].body # None) =>
                  parsed[1].body[1] = PyJoin(Drop(lines, blank), CRLF)

StrName == <<"N", "a", "m", "e">>

\* position of the first colon of a line, 0 when it has none
FirstColon(line) ==
    IF \E i \in 1..Len(line) : line[i] = ":"
    THEN CHOOSE i \in 1..Len(line) : line[i] = ":" /\ \A j \in 1..(i - 1) : line[j] # ":"
    ELSE 0

\* C35: the header map has exactly one entry for each name written before the first
\* colon of a line between the status line and the first blank line, name and
\* value trimmed, the value that of the last such line; lines without a colon and
\* lines after the blank line add nothing, and "Name:  a:b " gives Name -> "a:b"
C35_HeadersSplitOnFirstColon ==
    (parsed # None /\ parsed[1].ok) =>
        LET lines == TextLines(response_text)
            blank == BlankLine(response_text)
            last == IF blank = 0 THEN Len(lines) ELSE blank - 1
            colonLines == {k \in 2..last : FirstColon(lines[k]) # 0}
            name(k) == PyStrip(Take(lines[k], FirstColon(lines[k]) - 1))
            value(k) == PyStrip(Drop(lines[k], FirstColon(lines[k])))
            h == parsed[1].headers
        IN /\ {h[i][1] : i \in 1..Len(h)} = {name(k) : k \in colonLines}
           /\ \A i, j \in 1..Len(h) : h[i][1] = h[j][1] => i = j
           /\ \A i \in 1..Len(h) :
                  \E k \in colonLines :
                      /\ name(k) = h[i][1]
                      /\ value(k) = h[i][2]
                      /\ \A m \in colonLines : name(m) = h[i][1] => m <= k
           /\ response_text = TextColons =>
                  h = << <<StrName, <<"a", ":", "b">> >> >>

\* the text with the header "Name:  a:b ", a line without a colon and a header-like
\* body has been parsed without a failure
C35_Witness ==
    /\ response_text = TextColons
    /\ parsed # None
    /\ parsed[1].ok
    /\ Len(parsed[1].headers) = 1
    /\ parsed[1].body = Some(<<"X", ":", " ", "y">>)

(***************************************************************************)
(* Properties relating the counters to the response returned               *)
(***************************************************************************)
\* C36: the attempt that returns a response counts it in requests_success exactly
\* when the status_code of that response is below 400, and then leaves
\* requests_failed alone
C36_MetricAgreesWithResponse ==
    [][(pc = "attempting" /\ pc' = "returned") =>
           LET healthy == result'[1].status_code < 400 IN
           /\ (metrics'.requests_success = metrics.requests_success + 1) <=> healthy
           /\ healthy => metrics'.requests_failed = metrics.requests_failed]_vars

(***************************************************************************)
(* Properties of the sessions connect() creates                            *)
(***************************************************************************)
\* C37: when close() has been awaited, by the application or by __aexit__, no
\* session that connect() created is open, neither the one in self.session nor
\* one that an earlier connect() had put there; on a client that never connected
\* close() changes nothing
C37_CloseLeavesNoOpenSession ==
    [][(Close \/ \E raised \in BOOLEAN : __aexit__(raised)) =>
           /\ session' # "open"
           /\ ~leaked'
           /\ session = "None" => UNCHANGED lifeVars]_vars

(***************************************************************************)
(* Properties of a call on a client that never connected                   *)
(***************************************************************************)
\* the classes of the IcapError family
IcapErrorFamily ==
    {"IcapError", "IcapConnectionError", "IcapAuthenticationError", "IcapTimeoutError",
     "IcapProtocolError", "IcapServerError"}

\* C38: on a client whose self.session is still None a call of reqmod, respmod or
\* options returns no response; when it is over it has raised an error of the
\* IcapError family, requests_total and requests_success are what they were when
\* it was made and requests_failed is one more
C38_CallWithoutConnectRaises ==
    (session = "None" /\ request # None
                      /\ request[1].caller \in {"reqmod", "respmod", "options"}) =>
        /\ pc # "returned"
        /\ result = None
        /\ pc = "raised" =>
               /\ error \in IcapErrorFamily
               /\ metrics.requests_total = metrics_at_call.requests_total
               /\ metrics.requests_success = metrics_at_call.requests_success
               /\ metrics.requests_failed = metrics_at_call.requests_failed + 1
        /\ facade # None =>
               /\ facade[1].raised
               /\ facade[1].error \in IcapErrorFamily

\* a second call on a client that never connected has failed after its retry
C38_Witness ==
    /\ session = "None"
    /\ request # None
    /\ request[1].caller = "reqmod"
    /\ facade # None
    /\ facade[1].raised
    /\ pc = "raised"
    /\ config.retries = 1
    /\ Len(slept) = 1
    /\ calls_made = 2
    /\ metrics.requests_failed = 2
    /\ metrics.requests_total = 0

(***************************************************************************)
(* Properties of the requests the attempts of a call send                  *)
(***************************************************************************)
\* C39: every session request of a call of reqmod, respmod or options was issued
\* with the method, URL, headers and body built when the call was made: one per
\* attempt, all equal, whatever attempts failed and sleeps were made in between
C39_AttemptsSendSameRequest ==
    request # None =>
        /\ Len(sent) = started
        /\ \A i \in 1..Len(sent) : sent[i] = request
        /\ \A i, j \in 1..Len(sent) : sent[i] = sent[j]

\* a REQMOD call with a body and a bearer token has failed twice, a sleep between
\* its two attempts
C39_Witness ==
    /\ request # None
    /\ pc = "raised"
    /\ Len(sent) = 2
    /\ Len(slept) = 1
    /\ sent[2][1].method = "REQMOD"
    /\ sent[2][1].data # None
    /\ HasHeader(sent[2][1].headers, Authorization)
    /\ HasHeader(sent[2][1].headers, Encapsulated)

(***************************************************************************)
(* Properties of the retry state of concurrent calls                       *)
(***************************************************************************)
\* what a call keeps for itself: where it is, its loop index, its last_exception
\* and the text of the response it returned
RetryState(t) ==
    <<t.pc, t.attempt, t.last_exception, t.returned_text>>

\* C40: in every interleaving each call makes at most retries + 1 attempts, its
\* loop index moving by one and only after a sleep of its own; a step of one
\* call leaves the place, the loop index, the last exception and the response of
\* every other call as they were; a call that is over keeps the response or the
\* error it ended with, the error being that of its own latest failed attempt
C40_IndependentRetryState ==
    [][\A u \in Tasks :
          /\ task'[u].attempt <= config.retries
          /\ task'[u].attempt \in {task[u].attempt, task[u].attempt + 1}
          /\ task'[u].attempt = task[u].attempt + 1 =>
                 task[u].pc = "sleeping" /\ task'[u].pc \in {"attempting", "waiting"}
          /\ (\E t \in Tasks \ {u} : RetryState(task'[t]) # RetryState(task[t])) =>
                 RetryState(task'[u]) = RetryState(task[u])
          /\ task[u].pc \in {"returned", "raised"} =>
                 RetryState(task'[u]) = RetryState(task[u])
          /\ (task'[u].pc = "returned") <=> (task'[u].returned_text # <<>>)
          /\ task[u].pc \in {"sleeping", "raised"} =>
                 task'[u].last_exception = task[u].last_exception]_vars

\* two calls that overlapped have ended with different errors: one raised the
\* timeout of its last attempt, the other the connection error of its own
C40_Witness ==
    \E t, u \in Tasks :
        /\ task[t].pc = "raised"
        /\ task[t].attempt = config.retries
        /\ config.retries = MaxTaskRetries
        /\ task[t].last_exception = "IcapTimeoutError"
        /\ task[u].pc = "raised"
        /\ task[u].last_exception = "IcapConnectionError"
        /\ overlap

====
